---- MODULE Spec2Model ----
(***************************************************************************)
(* Alert pipeline of the monitoring tool: worker pool (internal/pool),     *)
(* alert repository, event bus and alert state manager                     *)
(* (internal/processor), pod condition evaluator (internal/collector).     *)
(*                                                                         *)
(* Goroutines are modelled as processes with a program counter; one action *)
(* is one atomic step of the Go code (a critical section, a channel        *)
(* operation, one arm of a select).  A select with several ready arms is a *)
(* nondeterministic choice between the arms, as in the Go runtime.         *)
(***************************************************************************)
EXTENDS Integers, Sequences, FiniteSets, TLC

\* ------------------------------------------------------------------ bounds
\* Number of Submit / SubmitWithContext calls made on the pool.
MaxTasks == 3
\* Number of Stop / StopWithTimeout calls made on the pool.
MaxStops == 2
\* Number of Submit calls made on a pool that is stopped with StopWithTimeout.
TimeoutTasks == 1
\* Number of submissions of scenario S6 (pool of 2 workers, queue of 3).
S6Submits == 6
\* Number of pod events given to processEvent.
MaxEvents == 2
\* Number of events the bus dispatcher is followed for.
MaxDispatch == 1
\* Number of direct Publish calls made on the bus.
MaxPublish == 2
\* Number of events the dispatcher is followed for under direct Publish calls.
MaxBusDispatch == 2
\* Number of Broadcast calls made on the hub.
MaxBroadcasts == 2
\* Number of messages the hub loop is followed for.
MaxHubMessages == 2
\* Number of events the upstream watch delivers to a watcher, and number of
\* events its dispatcher is followed for.
MaxWatchEvents == 2
\* Number of times the ticker of the metrics watcher fires.
MaxTicks == 1
\* Number of OnAlert calls made on the email dispatcher.
MaxMailCalls == 3

\* ------------------------------------------------------- program constants
\* NewWorkerPool: worker count used when the argument is not positive.
DefaultWorkerCount == 1
\* NewWorkerPool: queue capacity used when the argument is not positive.
DefaultQueueSize == 100
\* NewEventBus: capacity of eventChan.
EventChanCap == 200
\* NewHub: capacity of the broadcast channel.
BroadcastCap == 500
\* NewPodWatcher: capacity of eventChan.
PodEventChanCap == 500
\* NewNodeWatcher: capacity of eventChan.
NodeEventChanCap == 300

\* Error values returned by the pool.
ErrNil == "nil"
ErrStopped == "worker pool is stopped"
ErrQueueFull == "task queue is full"
ErrTimeout == "worker pool shutdown timeout exceeded"
ErrCanceled == "context canceled"
\* A Go runtime panic of the calling goroutine.
PanicSendClosed == "panic: send on closed channel"
PanicCloseClosed == "panic: close of closed channel"

VARIABLES
    \* ---- pool.WorkerPool
    workerCount,    \* wp.workerCount
    queueSize,      \* cap(wp.taskQueue)
    taskQueue,      \* buffered contents of wp.taskQueue (task ids, FIFO)
    queueCloses,    \* number of close(wp.taskQueue) executed
    stopCloses,     \* number of close(wp.stopChan) executed
    stopped,        \* wp.stopped
    started,        \* Start has been called
    poolCtxDone,    \* the context given to Start is cancelled
    wk,             \* worker goroutine i: [st, task]
    call,           \* Submit call for task t: [pc, afterStop, result]
    lastSubmit,     \* the Submit call that returned last: [task, kind, afterStop, result]
    stopper,        \* Stop call s: [pc, first, startedAtCall]
    swt,            \* StopWithTimeout call s: [pc, deadline, result]
    panics,         \* runtime panics raised so far
    \* ---- models.Alert values, by ID
    built,          \* number of alerts built before the calls followed here
    heap,           \* the alerts built by the calls followed here
    \* ---- repository.AlertRepo
    repo,           \* the stored alerts, in creation order
    \* ---- processor.EventBus
    eventChan,      \* buffered contents of eb.eventChan (alerts of the events)
    observers,      \* eb.observers
    busStarted,     \* Start has been called
    taken,          \* events the dispatcher received, in order
    pending,        \* notifyObservers goroutines that have not called OnAlert yet
    notified,       \* per observer, the alerts OnAlert was called with
    \* ---- PodWatcher.processEvent / AlertStateManager.ProcessAlert
    proc,           \* per calling goroutine: [pc, todo]
    events,         \* number of processEvent calls made
    fed,            \* per pod, number of processEvent calls made with it
    failed,         \* <<alert, error>> of the Create calls that failed
    dropped,        \* alerts Publish dropped
    lastReturn,     \* what the ProcessAlert call that returned last returned
    \* ---- processor.EventBus, dispatcher and shutdown
    dispatcher,     \* the dispatcher goroutine: "none", "running", "exited"
    stopChCloses,   \* number of close(eb.stopCh) executed
    busCtxDone,     \* the context given to Start is cancelled
    busStopper,     \* per Stop call: "idle", "waiting", "returned", "panicked"
    busPanics,      \* runtime panics raised by Stop calls
    running,        \* OnAlert invocations that have not returned
    errored,        \* OnAlert invocations that returned an error
    publishes,      \* number of direct Publish calls made
    sinkMode,       \* per sink, what its OnAlert does: "ok", "fail", "hang"
    subscribing,    \* the observer a Subscribe call is appending, or "none"
    raced,          \* the dispatcher read eb.observers during a Subscribe
    \* ---- cmd/monitoring-tool: init()
    mainPc,         \* the next step of init(), "serving" after it
    emailEnabled,   \* cfg.Email is enabled and complete
    \* ---- websocket.Hub
    clients,        \* h.clients
    conn,           \* per client, its connection: "none", "open", "closed"
    broadcast,      \* buffered contents of h.broadcast (message ids)
    hubPc,          \* Run: "none", "select", "writing", "unregistering", "exited"
    hubMsg,         \* the message Run is writing to the clients
    hubTodo,        \* the clients Run has still to write it to
    hubCtxDone,     \* the context given to Run is cancelled
    regWaiting,     \* clients whose Register call waits to send on h.register
    unregWaiting,   \* clients whose Unregister call waits to send on h.unregister
    received,       \* per client, the messages written to its connection
    hubDropped,     \* messages Broadcast dropped
    hubSent,        \* number of Broadcast calls made
    hubTaken,       \* number of messages Run received from h.broadcast
    writeMu,        \* per client, the holder of client.writeMu, or "none"
    reader,         \* per client, its receive goroutine: "none", "reading",
                    \* "ponging", "unregistering", "done"
    heartbeat,      \* per client, its ping goroutine: "none", "waiting",
                    \* "checked", "pinging", "exited"
    \* ---- collector.PodWatcher / collector.NodeWatcher
    wKind,          \* the watcher followed: "pod" or "node"
    wChan,          \* buffered contents of eventChan (event ids)
    stream,         \* watchPods / watchNodes: "none", "disconnected", "sleeping",
                    \* "streaming", "exited"
    wDisp,          \* eventDispatcher: "none", "running", "exited"
    wStopClosed,    \* stopCh of the watcher is closed
    watchCtxDone,   \* the context given to the watchers' Start is cancelled
    wSeen,          \* number of events received from the upstream watch
    wDropped,       \* events dropped at the full eventChan
    wSubmitted,     \* <<event, error>> per SubmitWithContext of the dispatcher
    wStopper,       \* the Stop call on the watcher: "idle", "waiting", "returned"
    \* ---- collector.MetricsWatcher
    mPc,            \* metricsLoop: "none", "podSubmit", "nodeSubmit", "select",
                    \* "exited"
    mStopClosed,    \* stopCh of the metrics watcher is closed
    mAttempts,      \* <<task, error>> per SubmitWithContext of checkAllMetrics
    mTicks,         \* number of times ticker.C fired
    mStopper,       \* the Stop call on the metrics watcher
    \* ---- evaluation of the alert rules
    evalIn,         \* the object or the metrics given to the rules
    evalNow,        \* time.Now(), in seconds
    evalOut,        \* per evaluation made, its time and the alerts returned
    \* ---- notifier.EmailDispatcher
    mailCfg,        \* ed.config: SMTPHost and Username
    mail            \* per OnAlert call: its position, the outcomes of its
                    \* SendMail calls and what it returned

poolVars == <<workerCount, queueSize, taskQueue, queueCloses, stopCloses, stopped,
              started, poolCtxDone, wk, call, lastSubmit, stopper, swt, panics>>

asmVars == <<built, heap, repo, eventChan, observers, busStarted, taken, pending, notified, proc,
             events, fed, failed, dropped, lastReturn>>

busVars == <<dispatcher, stopChCloses, busCtxDone, busStopper, busPanics, running,
             errored, publishes, sinkMode, subscribing, raced>>

appVars == <<mainPc, emailEnabled>>

hubVars == <<clients, conn, broadcast, hubPc, hubMsg, hubTodo, hubCtxDone, regWaiting,
             unregWaiting, received, hubDropped, hubSent, hubTaken, writeMu, reader,
             heartbeat>>

\* The variables of the goroutines ServeWS starts for a client.
scopeVars == <<writeMu, reader, heartbeat>>

\* The variables beside those of the pool and of the state manager.
watchVars == <<wKind, wChan, stream, wDisp, wStopClosed, watchCtxDone, wSeen, wDropped,
               wSubmitted, wStopper, mPc, mStopClosed, mAttempts, mTicks, mStopper>>

\* The variables of the evaluation of the alert rules.
evalVars == <<evalIn, evalNow, evalOut>>

\* The variables of the email dispatcher.
mailVars == <<mailCfg, mail>>

extVars == <<busVars, appVars, hubVars, watchVars, evalVars, mailVars>>

\* The variables the event bus does not use, beside those of the state manager.
offBusVars == <<poolVars, appVars, hubVars, watchVars, evalVars, mailVars>>

vars == <<poolVars, asmVars, extVars>>

\* The variables the hub does not use.
offHubVars == <<poolVars, asmVars, busVars, appVars, watchVars, evalVars, mailVars>>

\* The variables the watchers do not use.
offWatchVars == <<poolVars, asmVars, busVars, appVars, hubVars, evalVars, mailVars>>

\* The WebSocket clients that connect.
HubClients == {"c1", "c2"}

\* Callers of EventBus.Stop.
BusStoppers == {"shutdown", "deferred"}

\* The sinks of the application.
Sinks == {"wsHub", "emailDispatcher"}

\* The bus as constructed by NewEventBus, with sinks that return nil.
BusNew ==
    /\ dispatcher = "none"
    /\ stopChCloses = 0
    /\ busCtxDone = FALSE
    /\ busStopper = [b \in BusStoppers |-> "idle"]
    /\ busPanics = {}
    /\ running = {}
    /\ errored = {}
    /\ publishes = 0
    /\ sinkMode = [o \in Sinks |-> "ok"]
    /\ subscribing = "none"
    /\ raced = FALSE

\* init() not modelled: the components are used directly.
AppUnused ==
    /\ mainPc = "none"
    /\ emailEnabled = FALSE

\* No rule is evaluated.
EvalUnused ==
    /\ evalIn = [kind |-> "none"]
    /\ evalNow = 0
    /\ evalOut = <<>>

\* The OnAlert calls made on the email dispatcher.
MailCalls == 1..MaxMailCalls

\* An OnAlert call that has not been made.
NoMail == [pc |-> "idle", sends |-> <<>>, result |-> "none"]

\* No alert is given to the email dispatcher.
MailUnused ==
    /\ mailCfg = [SMTPHost |-> "", Username |-> ""]
    /\ mail = [c \in MailCalls |-> NoMail]

\* The watchers as constructed, not started.
WatchNew ==
    /\ wKind = "pod"
    /\ wChan = <<>>
    /\ stream = "none"
    /\ wDisp = "none"
    /\ wStopClosed = FALSE
    /\ watchCtxDone = FALSE
    /\ wSeen = 0
    /\ wDropped = {}
    /\ wSubmitted = <<>>
    /\ wStopper = "idle"
    /\ mPc = "none"
    /\ mStopClosed = FALSE
    /\ mAttempts = <<>>
    /\ mTicks = 0
    /\ mStopper = "idle"

\* The hub as constructed by NewHub, without clients.
HubNew ==
    /\ clients = {}
    /\ conn = [c \in HubClients |-> "none"]
    /\ broadcast = <<>>
    /\ hubPc = "none"
    /\ hubMsg = 0
    /\ hubTodo = <<>>
    /\ hubCtxDone = FALSE
    /\ regWaiting = {}
    /\ unregWaiting = {}
    /\ received = [c \in HubClients |-> <<>>]
    /\ hubDropped = {}
    /\ hubSent = 0
    /\ hubTaken = 0
    /\ writeMu = [c \in HubClients |-> "none"]
    /\ reader = [c \in HubClients |-> "none"]
    /\ heartbeat = [c \in HubClients |-> "none"]

\* The state manager, repository and bus as constructed, without callers.
AsmUnused ==
    /\ built = 0
    /\ heap = <<>>
    /\ repo = <<>>
    /\ eventChan = <<>>
    /\ observers = <<>>
    /\ busStarted = FALSE
    /\ taken = <<>>
    /\ pending = {}
    /\ notified = <<>>
    /\ proc = <<>>
    /\ events = 0
    /\ fed = <<>>
    /\ failed = {}
    /\ dropped = {}
    /\ lastReturn = [alert |-> 0, created |-> FALSE, err |-> "none"]

Stoppers == 1..MaxStops

\* ------------------------------------------------------------ worker pool

\* NewWorkerPool(workerCount, queueSize): non-positive arguments get defaults.
NewWorkerPool(n, q) ==
    [workerCount |-> IF n <= 0 THEN DefaultWorkerCount ELSE n,
     queueSize   |-> IF q <= 0 THEN DefaultQueueSize ELSE q]

\* Constructor arguments the pool is built with.
PoolArgs == {<<2, 2>>}

Workers == 1..workerCount

\* Workers counted by wp.wg: started and not yet returned.
LiveWorkers == {w \in Workers : wk[w].st \in {"idle", "running"}}

\* Tasks some worker is executing.
Executing == {wk[w].task : w \in {v \in Workers : wk[v].st = "running"}}

NoCall == [pc |-> "new", afterStop |-> FALSE, result |-> "none"]
NoSubmit == [task |-> 0, kind |-> "none", afterStop |-> FALSE, result |-> "none"]
NoStop == [pc |-> "idle", first |-> FALSE, startedAtCall |-> FALSE]
NoSwt == [pc |-> "idle", deadline |-> FALSE, result |-> "none"]

PoolInitWith(n, q, nTasks) ==
    /\ workerCount = NewWorkerPool(n, q).workerCount
    /\ queueSize = NewWorkerPool(n, q).queueSize
    /\ taskQueue = <<>>
    /\ queueCloses = 0
    /\ stopCloses = 0
    /\ stopped = FALSE
    /\ started = FALSE
    /\ poolCtxDone = FALSE
    /\ wk = [w \in 1..NewWorkerPool(n, q).workerCount |-> [st |-> "none", task |-> 0]]
    /\ call = [t \in 1..nTasks |-> NoCall]
    /\ lastSubmit = NoSubmit
    /\ stopper = [s \in Stoppers |-> NoStop]
    /\ swt = [s \in Stoppers |-> NoSwt]
    /\ panics = {}

PoolInit == AsmUnused /\ BusNew /\ AppUnused /\ HubNew /\ WatchNew /\ EvalUnused /\ MailUnused /\ \E a \in PoolArgs : PoolInitWith(a[1], a[2], MaxTasks)

\* Start: wg.Add(1) and go wp.worker(ctx, i) for each worker.
Start ==
    /\ ~started
    /\ started' = TRUE
    /\ wk' = [w \in Workers |-> [st |-> "idle", task |-> 0]]
    /\ UNCHANGED <<asmVars, extVars, workerCount, queueSize, taskQueue, queueCloses, stopCloses, stopped,
                   poolCtxDone, call, lastSubmit, stopper, swt, panics>>

\* The context handed to Start is cancelled.
CancelPoolCtx ==
    /\ ~poolCtxDone
    /\ poolCtxDone' = TRUE
    /\ UNCHANGED <<asmVars, extVars, workerCount, queueSize, taskQueue, queueCloses, stopCloses, stopped,
                   started, wk, call, lastSubmit, stopper, swt, panics>>

\* The worker's select may take the arm `task, ok := <-wp.taskQueue`: the
\* queue holds a task.  The closed stop channel and the cancelled context are
\* other arms of the same select and do not disable this one.
TakeArmReady == Len(taskQueue) > 0

\* worker, select arm `task, ok := <-wp.taskQueue` with ok: the task is taken
\* and its execution begins.
WorkerTakeTask(w) ==
    /\ wk[w].st = "idle"
    /\ TakeArmReady
    /\ wk' = [wk EXCEPT ![w] = [st |-> "running", task |-> Head(taskQueue)]]
    /\ taskQueue' = Tail(taskQueue)
    /\ UNCHANGED <<asmVars, extVars, workerCount, queueSize, queueCloses, stopCloses, stopped, started,
                   poolCtxDone, call, lastSubmit, stopper, swt, panics>>

\* worker: task(ctx) returns (its error is discarded); back to the select.
WorkerTaskDone(w) ==
    /\ wk[w].st = "running"
    /\ wk' = [wk EXCEPT ![w] = [st |-> "idle", task |-> 0]]
    /\ UNCHANGED <<asmVars, extVars, workerCount, queueSize, taskQueue, queueCloses, stopCloses, stopped,
                   started, poolCtxDone, call, lastSubmit, stopper, swt, panics>>

\* worker, select arm `<-wp.taskQueue` with !ok: queue closed and drained.
WorkerQueueClosed(w) ==
    /\ wk[w].st = "idle"
    /\ queueCloses > 0
    /\ Len(taskQueue) = 0
    /\ wk' = [wk EXCEPT ![w].st = "exited"]
    /\ UNCHANGED <<asmVars, extVars, workerCount, queueSize, taskQueue, queueCloses, stopCloses, stopped,
                   started, poolCtxDone, call, lastSubmit, stopper, swt, panics>>

\* worker, select arm `<-wp.stopChan`.
WorkerStopSignal(w) ==
    /\ wk[w].st = "idle"
    /\ stopCloses > 0
    /\ wk' = [wk EXCEPT ![w].st = "exited"]
    /\ UNCHANGED <<asmVars, extVars, workerCount, queueSize, taskQueue, queueCloses, stopCloses, stopped,
                   started, poolCtxDone, call, lastSubmit, stopper, swt, panics>>

\* worker, select arm `<-ctx.Done()`.
WorkerCtxDone(w) ==
    /\ wk[w].st = "idle"
    /\ poolCtxDone
    /\ wk' = [wk EXCEPT ![w].st = "exited"]
    /\ UNCHANGED <<asmVars, extVars, workerCount, queueSize, taskQueue, queueCloses, stopCloses, stopped,
                   started, poolCtxDone, call, lastSubmit, stopper, swt, panics>>

\* The goroutines that submit to the pool: the dispatcher of the pod watcher,
\* the dispatcher of the node watcher and the loop of the metrics watcher.
\* The metrics loop submits only on a timer tick, so at most two of them are
\* inside Submit at a time in the model.
Submitters == {"podDispatcher", "nodeDispatcher"}

\* Submit calls that have been entered and have not returned.
InFlight == {t \in DOMAIN call : call[t].pc \in {"lock", "send"}}

\* Tasks Submit accepted (it returned nil).
Accepted == {t \in DOMAIN call : call[t].result = ErrNil}

\* Tasks a worker has begun to execute: accepted and taken off the queue.
Begun == {t \in Accepted : \A i \in 1..Len(taskQueue) : taskQueue[i] # t}

\* Some call of Stop has returned to its caller.
SomeStopReturned == \E s \in Stoppers : stopper[s].pc = "returned"

\* SubmitWithContext: select { case <-ctx.Done(): return ctx.Err(); default: }.
ContextCheck(kind, ctxDone) ==
    IF kind = "SubmitWithContext" /\ ctxDone THEN ErrCanceled ELSE ErrNil

\* Submit returns r to its caller (which SubmitWithContext hands on to its own).
Return(t, r) ==
    /\ call' = [call EXCEPT ![t].pc = "done", ![t].result = r]
    /\ lastSubmit' = [task |-> t, kind |-> "Submit",
                      afterStop |-> call[t].afterStop, result |-> r]

\* Entry of Submit or of SubmitWithContext; ctxDone tells whether the
\* caller's context is done.  SubmitWithContext returns ctx.Err() when it is
\* and otherwise calls Submit, whose steps and result are then its own.
SubmitEnter(t, kind, ctxDone) ==
    /\ call[t].pc = "new"
    /\ \A u \in DOMAIN call : u < t => call[u].pc # "new"
    /\ Cardinality(InFlight) < Cardinality(Submitters)
    /\ IF ContextCheck(kind, ctxDone) = ErrNil
       THEN /\ call' = [call EXCEPT ![t] = [pc |-> "lock",
                                            afterStop |-> SomeStopReturned,
                                            result |-> "none"]]
            /\ UNCHANGED lastSubmit
       ELSE /\ call' = [call EXCEPT ![t] = [pc |-> "done",
                                            afterStop |-> SomeStopReturned,
                                            result |-> ContextCheck(kind, ctxDone)]]
            /\ lastSubmit' = [task |-> t, kind |-> kind, afterStop |-> SomeStopReturned,
                              result |-> ContextCheck(kind, ctxDone)]
    /\ UNCHANGED <<asmVars, extVars, workerCount, queueSize, taskQueue, queueCloses, stopCloses, stopped,
                   started, poolCtxDone, wk, stopper, swt, panics>>

\* Submit with the stopped test left out.
StoppedUnderRLockSkipped == FALSE

\* Submit: wp.stopped as read under wp.mu.RLock().
StoppedUnderRLock == stopped

\* Submit: the read-locked test of wp.stopped.
SubmitCheckStopped(t) ==
    /\ call[t].pc = "lock"
    /\ IF StoppedUnderRLock
       THEN Return(t, ErrStopped)
       ELSE /\ call' = [call EXCEPT ![t].pc = "send"]
            /\ UNCHANGED lastSubmit
    /\ UNCHANGED <<asmVars, extVars, workerCount, queueSize, taskQueue, queueCloses, stopCloses, stopped,
                   started, poolCtxDone, wk, stopper, swt, panics>>

\* A send that succeeds when the buffer is exactly full (off by one).
QueueHasRoomOffByOne == Len(taskQueue) <= queueSize

\* The select of Submit can send: fewer than cap(taskQueue) tasks are queued.
QueueHasRoom == Len(taskQueue) < queueSize

\* Submit: select { case wp.taskQueue <- task: nil; default: queue full }.
\* A send on a closed channel panics, inside a select as well.
SubmitSend(t) ==
    /\ call[t].pc = "send"
    /\ IF queueCloses > 0
       THEN /\ panics' = panics \cup {PanicSendClosed}
            /\ Return(t, PanicSendClosed)
            /\ UNCHANGED taskQueue
       ELSE IF QueueHasRoom
       THEN /\ taskQueue' = Append(taskQueue, t)
            /\ Return(t, ErrNil)
            /\ UNCHANGED panics
       ELSE /\ Return(t, ErrQueueFull)
            /\ UNCHANGED <<taskQueue, panics>>
    /\ UNCHANGED <<asmVars, extVars, workerCount, queueSize, queueCloses, stopCloses, stopped,
                   started, poolCtxDone, wk, stopper, swt>>

\* Stop without its guard against a second call.
AlreadyStoppedUnchecked == FALSE

\* Stop finds the pool already stopped (wp.stopped read under wp.mu).
AlreadyStopped == stopped

\* Stop, critical section under wp.mu: return at once when already stopped,
\* otherwise set wp.stopped.  The call is either a direct call of Stop
\* (pc "idle") or the goroutine StopWithTimeout spawned (pc "spawned").
StopLock(s) ==
    /\ \/ /\ stopper[s].pc = "idle" /\ swt[s].pc = "idle"
          /\ \A u \in Stoppers : u < s => (stopper[u].pc # "idle" \/ swt[u].pc # "idle")
       \/ stopper[s].pc = "spawned"
    /\ IF AlreadyStopped
       THEN /\ stopper' = [stopper EXCEPT ![s] =
                             [pc |-> "returned", first |-> FALSE, startedAtCall |-> started]]
            /\ UNCHANGED stopped
       ELSE /\ stopper' = [stopper EXCEPT ![s] =
                             [pc |-> "close", first |-> TRUE, startedAtCall |-> started]]
            /\ stopped' = TRUE
    /\ UNCHANGED <<asmVars, extVars, workerCount, queueSize, taskQueue, queueCloses, stopCloses,
                   started, poolCtxDone, wk, call, lastSubmit, swt, panics>>

\* Stop: close(wp.stopChan).  Closing a closed channel panics.
StopCloseStopChan(s) ==
    /\ stopper[s].pc = "close"
    /\ stopCloses' = stopCloses + 1
    /\ panics' = IF stopCloses > 0 THEN panics \cup {PanicCloseClosed} ELSE panics
    /\ stopper' = [stopper EXCEPT ![s].pc = "wait"]
    /\ UNCHANGED <<asmVars, extVars, workerCount, queueSize, taskQueue, queueCloses, stopped,
                   started, poolCtxDone, wk, call, lastSubmit, swt>>

\* wp.wg.Wait() may return: every started worker has returned.
WaitGroupZero == LiveWorkers = {}

\* Stop: wp.wg.Wait().
StopWait(s) ==
    /\ stopper[s].pc = "wait"
    /\ WaitGroupZero
    /\ stopper' = [stopper EXCEPT ![s].pc = "closeq"]
    /\ UNCHANGED <<asmVars, extVars, workerCount, queueSize, taskQueue, queueCloses, stopCloses, stopped,
                   started, poolCtxDone, wk, call, lastSubmit, swt, panics>>

\* Stop: close(wp.taskQueue), then return.
StopCloseQueue(s) ==
    /\ stopper[s].pc = "closeq"
    /\ queueCloses' = queueCloses + 1
    /\ panics' = IF queueCloses > 0 THEN panics \cup {PanicCloseClosed} ELSE panics
    /\ stopper' = [stopper EXCEPT ![s].pc = "returned"]
    /\ UNCHANGED <<asmVars, extVars, workerCount, queueSize, taskQueue, stopCloses, stopped,
                   started, poolCtxDone, wk, call, lastSubmit, swt>>

\* StopWithTimeout: spawn the goroutine that calls Stop and closes done, then
\* wait in the select.  expired tells whether the deadline context is already
\* done at the call.
StopWithTimeoutEnter(s, expired) ==
    /\ stopper[s].pc = "idle" /\ swt[s].pc = "idle"
    /\ \A u \in Stoppers : u < s => (stopper[u].pc # "idle" \/ swt[u].pc # "idle")
    /\ stopper' = [stopper EXCEPT ![s].pc = "spawned"]
    /\ swt' = [swt EXCEPT ![s].pc = "select", ![s].deadline = expired]
    /\ UNCHANGED <<asmVars, extVars, workerCount, queueSize, taskQueue, queueCloses, stopCloses, stopped,
                   started, poolCtxDone, wk, call, lastSubmit, panics>>

\* The deadline of the context given to StopWithTimeout expires.
DeadlineExpires(s) ==
    /\ swt[s].pc = "select"
    /\ ~swt[s].deadline
    /\ swt' = [swt EXCEPT ![s].deadline = TRUE]
    /\ UNCHANGED <<asmVars, extVars, workerCount, queueSize, taskQueue, queueCloses, stopCloses, stopped,
                   started, poolCtxDone, wk, call, lastSubmit, stopper, panics>>

\* StopWithTimeout, select arm `<-done`: the spawned Stop has returned.
StopWithTimeoutDone(s) ==
    /\ swt[s].pc = "select"
    /\ stopper[s].pc = "returned"
    /\ swt' = [swt EXCEPT ![s].pc = "returned", ![s].result = ErrNil]
    /\ UNCHANGED <<asmVars, extVars, workerCount, queueSize, taskQueue, queueCloses, stopCloses, stopped,
                   started, poolCtxDone, wk, call, lastSubmit, stopper, panics>>

\* StopWithTimeout, select arm `<-timeout.Done()`.
StopWithTimeoutExpired(s) ==
    /\ swt[s].pc = "select"
    /\ swt[s].deadline
    /\ swt' = [swt EXCEPT ![s].pc = "returned", ![s].result = ErrTimeout]
    /\ UNCHANGED <<asmVars, extVars, workerCount, queueSize, taskQueue, queueCloses, stopCloses, stopped,
                   started, poolCtxDone, wk, call, lastSubmit, stopper, panics>>

\* IsStopped: the read-locked value of wp.stopped.
IsStopped == stopped

\* GetQueueSize: len(wp.taskQueue).
GetQueueSize == Len(taskQueue)

SubmitKinds == {"Submit", "SubmitWithContext"}

\* Steps of the worker goroutines.
WorkerSteps ==
    \/ \E w \in Workers : WorkerTakeTask(w)
    \/ \E w \in Workers : WorkerTaskDone(w)
    \/ \E w \in Workers : WorkerQueueClosed(w)
    \/ \E w \in Workers : WorkerStopSignal(w)

\* Cancellation of the context given to Start, and the workers seeing it.
ContextSteps ==
    \/ CancelPoolCtx
    \/ \E w \in Workers : WorkerCtxDone(w)

\* Steps of the Stop calls.
StopSteps ==
    \/ \E s \in Stoppers : StopLock(s)
    \/ \E s \in Stoppers : StopCloseStopChan(s)
    \/ \E s \in Stoppers : StopWait(s)
    \/ \E s \in Stoppers : StopCloseQueue(s)

\* Steps of the StopWithTimeout calls.
TimeoutSteps ==
    \/ \E s \in Stoppers : \E expired \in BOOLEAN : StopWithTimeoutEnter(s, expired)
    \/ \E s \in Stoppers : DeadlineExpires(s)
    \/ \E s \in Stoppers : StopWithTimeoutDone(s)
    \/ \E s \in Stoppers : StopWithTimeoutExpired(s)

\* The pool under callers of Start, Submit, SubmitWithContext and Stop.
PoolNext ==
    \/ Start
    \/ WorkerSteps
    \/ ContextSteps
    \/ \E t \in DOMAIN call : \E kind \in SubmitKinds : \E ctxDone \in BOOLEAN :
          SubmitEnter(t, kind, ctxDone)
    \/ \E t \in DOMAIN call : SubmitCheckStopped(t)
    \/ \E t \in DOMAIN call : SubmitSend(t)
    \/ StopSteps

SpecPool == PoolInit /\ [][PoolNext]_vars

\* The pool stopped by Stop and by StopWithTimeout calls: one worker, a queue
\* of one, callers of Submit, a context that stays live.
PoolTimeoutInit == AsmUnused /\ BusNew /\ AppUnused /\ HubNew /\ WatchNew /\ EvalUnused /\ MailUnused /\ PoolInitWith(0, 1, TimeoutTasks)

PoolTimeoutNext ==
    \/ Start
    \/ WorkerSteps
    \/ \E t \in DOMAIN call : SubmitEnter(t, "Submit", FALSE)
    \/ \E t \in DOMAIN call : SubmitCheckStopped(t)
    \/ \E t \in DOMAIN call : SubmitSend(t)
    \/ StopSteps
    \/ TimeoutSteps

SpecPoolTimeout == PoolTimeoutInit /\ [][PoolTimeoutNext]_vars

\* Scenario S6: a started pool of 2 workers and a queue of 3, one submitter
\* making its submissions one after the other, tasks that do not finish.
S6Init == AsmUnused /\ BusNew /\ AppUnused /\ HubNew /\ WatchNew /\ EvalUnused /\ MailUnused /\ PoolInitWith(2, 3, S6Submits)

S6Next ==
    \/ Start
    \/ \E w \in Workers : WorkerTakeTask(w)
    \/ \E t \in DOMAIN call : started /\ InFlight = {} /\ SubmitEnter(t, "Submit", FALSE)
    \/ \E t \in DOMAIN call : SubmitCheckStopped(t)
    \/ \E t \in DOMAIN call : SubmitSend(t)

SpecS6 == S6Init /\ [][S6Next]_vars

\* ------------------------------------------------ pod condition evaluator

SeverityCritical == "critical"
SeverityHigh == "high"
SeverityMedium == "medium"

AlertTypePodFailed == "pod_failed"
AlertTypePodOOMKilled == "pod_oom_killed"
AlertTypePodCrashLoop == "pod_crash_loop"
AlertTypePodRestartThreshold == "pod_restart_threshold"
AlertTypePodImagePullError == "pod_image_pull"
AlertTypePodPending == "pod_pending"
AlertTypePodUnknown == "pod_unknown"

PodAlertTypes ==
    {AlertTypePodFailed, AlertTypePodOOMKilled, AlertTypePodCrashLoop,
     AlertTypePodRestartThreshold, AlertTypePodImagePullError, AlertTypePodPending,
     AlertTypePodUnknown}

AlertStatusFiring == "firing"

\* NewPodWatcher: restartThreshold is the configured pod_restart_threshold
\* (here 5), pendingTimeout is 5 minutes, in seconds.
PodWatcherConfig == [restartThreshold |-> 5, pendingTimeout |-> 5 * 60]

\* A container status: lastTerminated and waiting are the Reason of
\* LastTerminationState.Terminated and of State.Waiting, "none" when nil.
ContainerStatus(name, restartCount, lastTerminated, waiting, waitingMessage) ==
    [name |-> name, restartCount |-> restartCount, lastTerminated |-> lastTerminated,
     waiting |-> waiting, waitingMessage |-> waitingMessage]

\* Pods given to processEvent; age is time.Since(CreationTimestamp) in seconds.
PodHealthy ==
    [namespace |-> "prod", name |-> "api-1", phase |-> "Running", reason |-> "",
     message |-> "", age |-> 900,
     containers |-> <<ContainerStatus("api", 0, "none", "none", "")>>]
PodOOM ==
    [namespace |-> "prod", name |-> "web-7", phase |-> "Running", reason |-> "",
     message |-> "", age |-> 900,
     containers |-> <<ContainerStatus("app", 4, "OOMKilled", "none", "")>>]
PodCrash ==
    [namespace |-> "prod", name |-> "job-3", phase |-> "Running", reason |-> "",
     message |-> "", age |-> 900,
     containers |-> <<ContainerStatus("init", 0, "none", "none", ""),
                      ContainerStatus("main", 6, "Error", "CrashLoopBackOff",
                                      "back-off restarting failed container")>>]

Pods == {PodHealthy, PodOOM, PodCrash}

IsOOMKilled(cs) == cs.lastTerminated = "OOMKilled"
IsCrashLoop(cs) == cs.waiting = "CrashLoopBackOff"
IsImagePullError(cs) == cs.waiting \in {"ImagePullBackOff", "ErrImagePull"}

\* Smallest element of a non-empty set of indices.
First(I) == CHOOSE i \in I : \A j \in I : i <= j

getOOMKilledContainer(pod) ==
    LET I == {i \in DOMAIN pod.containers : IsOOMKilled(pod.containers[i])}
    IN  IF I = {} THEN "unknown" ELSE pod.containers[First(I)].name

getCrashLoopContainer(pod) ==
    LET I == {i \in DOMAIN pod.containers : IsCrashLoop(pod.containers[i])}
    IN  IF I = {} THEN <<"unknown", "unknown">>
        ELSE <<pod.containers[First(I)].name, pod.containers[First(I)].waitingMessage>>

\* A getHighestRestartContainer that compares with >=: among the containers
\* with the largest restart count it names the last.
getHighestRestartContainerLast(pod) ==
    LET cs == pod.containers
        I == {i \in DOMAIN cs : /\ cs[i].restartCount > 0
                                /\ \A j \in DOMAIN cs : cs[j].restartCount <= cs[i].restartCount}
    IN  IF I = {} THEN "unknown" ELSE cs[CHOOSE i \in I : \A j \in I : j <= i].name

\* The first container whose restart count is the largest, if that is positive.
getHighestRestartContainer(pod) ==
    LET cs == pod.containers
        I == {i \in DOMAIN cs : /\ cs[i].restartCount > 0
                                /\ \A j \in DOMAIN cs : cs[j].restartCount <= cs[i].restartCount}
    IN  IF I = {} THEN "unknown" ELSE cs[First(I)].name

getImagePullError(pod) ==
    LET I == {i \in DOMAIN pod.containers : IsImagePullError(pod.containers[i])}
    IN  IF I = {} THEN <<"unknown", "unknown">>
        ELSE <<pod.containers[First(I)].name, pod.containers[First(I)].waitingMessage>>

\* models.NewAlert: a fresh ID (uuid.New), status firing.  The message is the
\* sequence of the fragments fmt.Sprintf joins; the timestamps are left out.
NewAlert(id, severity, message, source, value, labels) ==
    [ID |-> id, Status |-> AlertStatusFiring, Severity |-> severity, Message |-> message,
     Source |-> source, Labels |-> labels, Value |-> value]

BuildPodAlert(pod, alertType, value, id) ==
    LET labels == [namespace |-> pod.namespace, pod |-> pod.name, alert_type |-> alertType]
        who == <<"Pod ", pod.namespace, "/", pod.name>>
    IN  CASE alertType = AlertTypePodFailed ->
               NewAlert(id, SeverityCritical,
                        who \o <<" has FAILED - Phase: ", pod.phase, ", Reason: ", pod.reason>>
                            \o (IF pod.message # "" THEN <<", Message: ", pod.message>>
                                                     ELSE <<>>),
                        "k8s_pod", value, labels)
          [] alertType = AlertTypePodOOMKilled ->
               NewAlert(id, SeverityCritical,
                        who \o <<" container '", getOOMKilledContainer(pod),
                                 "' was OOM KILLED - Out of memory">>,
                        "k8s_pod", value,
                        ("container" :> getOOMKilledContainer(pod)) @@ labels)
          [] alertType = AlertTypePodCrashLoop ->
               NewAlert(id, SeverityHigh,
                        who \o <<" container '", getCrashLoopContainer(pod)[1],
                                 "' is in CRASH LOOP BACKOFF - Reason: ",
                                 getCrashLoopContainer(pod)[2]>>,
                        "k8s_pod", value,
                        ("reason" :> getCrashLoopContainer(pod)[2])
                            @@ ("container" :> getCrashLoopContainer(pod)[1]) @@ labels)
          [] alertType = AlertTypePodRestartThreshold ->
               NewAlert(id, SeverityHigh,
                        who \o <<" has EXCESSIVE RESTARTS - Total restarts: ", ToString(value),
                                 ", Container: ", getHighestRestartContainer(pod)>>,
                        "k8s_pod", value,
                        ("container" :> getHighestRestartContainer(pod)) @@ labels)
          [] alertType = AlertTypePodImagePullError ->
               NewAlert(id, SeverityHigh,
                        who \o <<" container '", getImagePullError(pod)[1],
                                 "' cannot pull image - Error: ", getImagePullError(pod)[2]>>,
                        "k8s_pod", value,
                        ("container" :> getImagePullError(pod)[1]) @@ labels)
          [] alertType = AlertTypePodPending ->
               NewAlert(id, SeverityMedium,
                        who \o <<" is PENDING for extended period - Reason: ", pod.reason>>
                            \o (IF pod.message # "" THEN <<", Details: ", pod.message>>
                                                     ELSE <<>>),
                        "k8s_pod", value, labels)
          [] alertType = AlertTypePodUnknown ->
               NewAlert(id, SeverityCritical,
                        who \o <<" is in UNKNOWN state - Last known phase: ", pod.phase>>,
                        "k8s_pod", value, labels)
          [] OTHER ->
               NewAlert(id, SeverityMedium,
                        who \o <<" issue detected - Type: ", alertType>>,
                        "k8s_pod", value, labels)

Cond(alertType, value) == [alertType |-> alertType, value |-> value]

\* One iteration of the loop over pod.Status.ContainerStatuses.
ContainerConditions(cs) ==
    (IF IsOOMKilled(cs) THEN <<Cond(AlertTypePodOOMKilled, cs.restartCount)>> ELSE <<>>)
    \o (IF IsCrashLoop(cs) THEN <<Cond(AlertTypePodCrashLoop, cs.restartCount)>> ELSE <<>>)
    \o (IF IsImagePullError(cs) THEN <<Cond(AlertTypePodImagePullError, 1)>> ELSE <<>>)

RECURSIVE ContainerLoop(_, _)
ContainerLoop(css, i) ==
    IF i > Len(css) THEN <<>>
    ELSE ContainerConditions(css[i]) \o ContainerLoop(css, i + 1)

RECURSIVE TotalRestarts(_, _)
TotalRestarts(css, i) ==
    IF i > Len(css) THEN 0 ELSE css[i].restartCount + TotalRestarts(css, i + 1)

\* A pending check that looks at the age of the pod alone.
PodPendingPhaseAny(pod) == TRUE
\* evaluatePodConditions: pod.Status.Phase == corev1.PodPending.
PodPendingPhase(pod) == pod.phase = "Pending"

\* The conditions evaluatePodConditions finds, in the order it appends them.
PodConditions(pod, cfg) ==
    (IF pod.phase = "Failed" THEN <<Cond(AlertTypePodFailed, 1)>> ELSE <<>>)
    \o (IF pod.phase = "Unknown" THEN <<Cond(AlertTypePodUnknown, 1)>> ELSE <<>>)
    \o ContainerLoop(pod.containers, 1)
    \o (IF TotalRestarts(pod.containers, 1) > cfg.restartThreshold
        THEN <<Cond(AlertTypePodRestartThreshold, TotalRestarts(pod.containers, 1))>>
        ELSE <<>>)
    \o (IF PodPendingPhase(pod) /\ pod.age > cfg.pendingTimeout
        THEN <<Cond(AlertTypePodPending, 1)>> ELSE <<>>)

\* evaluatePodConditions: one alert per condition; base is the number of
\* alerts built before, so that every alert gets an ID of its own.
evaluatePodConditions(pod, cfg, base) ==
    [i \in 1..Len(PodConditions(pod, cfg)) |->
        BuildPodAlert(pod, PodConditions(pod, cfg)[i].alertType,
                      PodConditions(pod, cfg)[i].value, base + i)]

\* ------------------------- alert repository, event bus, alert state manager

\* Errors alertRepo.Create can return.
CreateErrors == {"connection refused"}

\* Goroutines that run processEvent (workers of the collector's pool).
Callers == {"worker1", "worker2"}

\* The observers subscribed to the bus when e-mail is not enabled.
Observers == <<"wsHub">>

Range(s) == {s[i] : i \in DOMAIN s}

IdleProc == [pc |-> "idle", todo |-> <<>>]
NoReturn == [alert |-> 0, created |-> FALSE, err |-> "none"]

\* The alert evaluatePodConditions builds for PodOOM, but for its ID.
AlertOfPodOOM == evaluatePodConditions(PodOOM, PodWatcherConfig, 0)[1]

\* The alert with the given ID (the alert a *models.Alert points to): the
\* first `built` alerts are those of PodOOM events.
AlertOf(id) ==
    IF id <= built THEN [AlertOfPodOOM EXCEPT !.ID = id] ELSE heap[id - built]

\* The pipeline after k events of PodOOM were processed without a Create
\* error and before the dispatcher received any of them (k = 0: the pipeline
\* as constructed).
AsmInitFor(k, obs, sinks) ==
    /\ built = k
    /\ heap = <<>>
    /\ repo = [i \in 1..k |-> i]
    /\ eventChan = [i \in 1..k |-> i]
    /\ observers = obs
    /\ busStarted = FALSE
    /\ taken = <<>>
    /\ pending = {}
    /\ notified = [o \in sinks |-> <<>>]
    /\ proc = [c \in Callers |-> IdleProc]
    /\ events = 0
    /\ fed = [p \in {q.name : q \in Pods} |-> IF p = PodOOM.name THEN k ELSE 0]
    /\ failed = {}
    /\ dropped = {}
    /\ lastReturn = IF k = 0 THEN NoReturn
                    ELSE [alert |-> k, created |-> TRUE, err |-> ErrNil]

AsmInitWith(k, obs) == AsmInitFor(k, obs, Range(obs))

AsmInitAfter(k) == AsmInitWith(k, Observers)

AsmInit ==
    /\ PoolInitWith(1, 1, 0)
    /\ BusNew
    /\ AppUnused
    /\ WatchNew
    /\ EvalUnused
    /\ MailUnused
    /\ HubNew
    /\ \E k \in {0, EventChanCap} : AsmInitAfter(k)

\* The loop of processEvent moves to its next alert, or processEvent returns.
NextAlert(p) ==
    IF Len(p.todo) <= 1 THEN IdleProc ELSE [pc |-> "create", todo |-> Tail(p.todo)]

\* processEvent up to the loop: evaluatePodConditions builds the alerts.
processEvent(c, pod) ==
    /\ proc[c].pc = "idle"
    /\ events < MaxEvents
    /\ LET alerts == evaluatePodConditions(pod, PodWatcherConfig, built + Len(heap))
       IN  /\ heap' = heap \o alerts
           /\ proc' = [proc EXCEPT ![c] =
                          IF alerts = <<>> THEN IdleProc
                          ELSE [pc |-> "create",
                                todo |-> [i \in 1..Len(alerts) |-> alerts[i].ID]]]
    /\ events' = events + 1
    /\ fed' = [fed EXCEPT ![pod.name] = @ + 1]
    /\ UNCHANGED <<poolVars, extVars, built, repo, eventChan, observers, busStarted, taken,
                   pending, notified, failed, dropped, lastReturn>>

\* A Create that deduplicates: it skips an alert whose labels and message the
\* repository holds already.
RepoCreateIfAbsent(r, id) ==
    IF \E i \in DOMAIN r :
          /\ AlertOf(r[i]).Labels = AlertOf(id).Labels
          /\ AlertOf(r[i]).Message = AlertOf(id).Message
    THEN r ELSE Append(r, id)
\* InMemoryAlertRepo.Create / PostgresAlertRepo.Create without an error: the
\* record is added, whatever the repository holds already.
RepoCreate(r, id) == Append(r, id)

\* A ProcessAlert that goes on to publish whatever Create returned.
ReturnsOnCreateErrorNever(err) == FALSE
\* ProcessAlert: if err := asm.alertRepo.Create(ctx, alert); err != nil.
ReturnsOnCreateError(err) == err # ErrNil

\* ProcessAlert, the call of alertRepo.Create and the return on its error.
ProcessAlertCreate(c, err) ==
    /\ proc[c].pc = "create"
    /\ LET id == Head(proc[c].todo)
       IN  /\ repo' = IF err = ErrNil THEN RepoCreate(repo, id) ELSE repo
           /\ failed' = IF err = ErrNil THEN failed ELSE failed \cup {<<id, err>>}
           /\ IF ReturnsOnCreateError(err)
              THEN /\ lastReturn' = [alert |-> id, created |-> FALSE, err |-> err]
                   /\ proc' = [proc EXCEPT ![c] = NextAlert(@)]
              ELSE /\ proc' = [proc EXCEPT ![c].pc = "publish"]
                   /\ UNCHANGED lastReturn
    /\ UNCHANGED <<poolVars, extVars, built, heap, eventChan, observers, busStarted, taken,
                   pending, notified, events, fed, dropped>>

\* A send that buffers the event twice.
ChanSendTwice(ch, e) == Append(Append(ch, e), e)
\* Publish: case eb.eventChan <- event.
ChanSend(ch, e) == Append(ch, e)

\* A send that is taken when the buffer is exactly full (off by one).
ChanHasRoomOffByOne == Len(eventChan) <= EventChanCap
\* Publish: the send arm of the select is ready.
ChanHasRoom == Len(eventChan) < EventChanCap

\* EventBus.Publish of the event of an alert: a select with a default arm.
Publish(id) ==
    IF ChanHasRoom
    THEN /\ eventChan' = ChanSend(eventChan, id)
         /\ UNCHANGED dropped
    ELSE /\ dropped' = dropped \cup {id}
         /\ UNCHANGED eventChan

\* ProcessAlert after Create succeeded: eventBus.Publish, return (true, nil).
ProcessAlertPublish(c) ==
    /\ proc[c].pc = "publish"
    /\ LET id == Head(proc[c].todo)
       IN  /\ Publish(id)
           /\ lastReturn' = [alert |-> id, created |-> TRUE, err |-> ErrNil]
    /\ proc' = [proc EXCEPT ![c] = NextAlert(@)]
    /\ UNCHANGED <<poolVars, extVars, built, heap, repo, observers, busStarted, taken,
                   pending, notified, events, fed, failed>>

\* The variables of the state manager that the bus does not use.
asmOnlyVars == <<built, heap, repo, proc, events, fed, failed, lastReturn>>

\* EventBus.Start: eb.wg.Add(1); go eb.dispatcher(ctx).
BusStart ==
    /\ ~busStarted
    /\ busStarted' = TRUE
    /\ dispatcher' = "running"
    /\ UNCHANGED <<offBusVars, asmOnlyVars, eventChan, observers, taken, pending, notified,
                   dropped, stopChCloses, busCtxDone, busStopper, busPanics, running,
                   errored, publishes, sinkMode, subscribing, raced>>

\* EventBus.Subscribe, up to the append: the call reads eb.observers.
SubscribeBegin(o) ==
    /\ subscribing = "none"
    /\ subscribing' = o
    /\ UNCHANGED <<offBusVars, asmVars, dispatcher, stopChCloses, busCtxDone, busStopper,
                   busPanics, running, errored, publishes, sinkMode, raced>>

\* EventBus.Subscribe: eb.observers = append(eb.observers, observer).
SubscribeEnd ==
    /\ subscribing # "none"
    /\ observers' = Append(observers, subscribing)
    /\ subscribing' = "none"
    /\ UNCHANGED <<offBusVars, asmOnlyVars, eventChan, busStarted, taken, pending, notified,
                   dropped, dispatcher, stopChCloses, busCtxDone, busStopper, busPanics,
                   running, errored, publishes, sinkMode, raced>>

\* What notifyObservers can read as eb.observers: the list, or, while a
\* Subscribe is appending to it without synchronisation, the list either
\* before or after the append.
ObserversSeen ==
    {observers} \cup (IF subscribing = "none" THEN {}
                     ELSE {Append(observers, subscribing)})

\* A notifyObservers that notifies the first observer only.
NotifiedObserversFirstOnly(seen) == {i \in DOMAIN seen : i = 1}
\* notifyObservers: for _, observer := range eb.observers.
NotifiedObservers(seen) == DOMAIN seen

\* A notifyObservers that waits for the OnAlert calls it started.
AwaitedByDispatcherAll == pending \cup running
\* notifyObservers starts its goroutines with `go` and waits for none of them.
AwaitedByDispatcher == {}

\* dispatcher: case event := <-eb.eventChan, then notifyObservers starts one
\* goroutine per observer; the dispatcher is followed for n events.
DispatcherReceiveUpTo(n) ==
    /\ dispatcher = "running"
    /\ AwaitedByDispatcher = {}
    /\ eventChan # <<>>
    /\ Len(taken) < n
    /\ taken' = Append(taken, Head(eventChan))
    /\ eventChan' = Tail(eventChan)
    /\ \E seen \in ObserversSeen :
          pending' = pending \cup {<<i, Head(eventChan)>> : i \in NotifiedObservers(seen)}
    /\ raced' = (raced \/ subscribing # "none")
    /\ UNCHANGED <<offBusVars, asmOnlyVars, observers, busStarted, notified, dropped,
                   dispatcher, stopChCloses, busCtxDone, busStopper, busPanics, running,
                   errored, publishes, sinkMode, subscribing>>

DispatcherReceive == DispatcherReceiveUpTo(MaxDispatch)

\* dispatcher: case <-eb.stopCh: return (defer eb.wg.Done()).
DispatcherStopSignal ==
    /\ dispatcher = "running"
    /\ stopChCloses > 0
    /\ dispatcher' = "exited"
    /\ UNCHANGED <<offBusVars, asmVars, stopChCloses, busCtxDone, busStopper, busPanics,
                   running, errored, publishes, sinkMode, subscribing, raced>>

\* dispatcher: case <-ctx.Done(): return (defer eb.wg.Done()).
DispatcherCtxDone ==
    /\ dispatcher = "running"
    /\ busCtxDone
    /\ dispatcher' = "exited"
    /\ UNCHANGED <<offBusVars, asmVars, stopChCloses, busCtxDone, busStopper, busPanics,
                   running, errored, publishes, sinkMode, subscribing, raced>>

\* The context given to EventBus.Start is cancelled.
BusCancelCtx ==
    /\ ~busCtxDone
    /\ busCtxDone' = TRUE
    /\ UNCHANGED <<offBusVars, asmVars, dispatcher, stopChCloses, busStopper, busPanics,
                   running, errored, publishes, sinkMode, subscribing, raced>>

\* notifyObservers, one goroutine: obs.OnAlert(ctx, event) is called.
ObserverOnAlert(i, id) ==
    /\ <<i, id>> \in pending
    /\ i \in DOMAIN observers
    /\ pending' = pending \ {<<i, id>>}
    /\ notified' = [notified EXCEPT ![observers[i]] = Append(@, id)]
    /\ running' = running \cup {<<i, id>>}
    /\ UNCHANGED <<offBusVars, asmOnlyVars, eventChan, observers, busStarted, taken, dropped,
                   dispatcher, stopChCloses, busCtxDone, busStopper, busPanics, errored,
                   publishes, sinkMode, subscribing, raced>>

\* notifyObservers, one goroutine: obs.OnAlert returns; an error is logged.
\* The OnAlert of a sink that hangs does not return.
ObserverReturn(i, id) ==
    /\ <<i, id>> \in running
    /\ sinkMode[observers[i]] # "hang"
    /\ running' = running \ {<<i, id>>}
    /\ errored' = IF sinkMode[observers[i]] = "fail" THEN errored \cup {<<i, id>>}
                  ELSE errored
    /\ UNCHANGED <<offBusVars, asmVars, dispatcher, stopChCloses, busCtxDone, busStopper,
                   busPanics, publishes, sinkMode, subscribing, raced>>

\* EventBus.Publish called with the event of a newly built alert.
BusPublish ==
    /\ publishes < MaxPublish
    /\ publishes' = publishes + 1
    /\ built' = built + 1
    /\ Publish(built + 1)
    /\ UNCHANGED <<offBusVars, heap, repo, observers, busStarted, taken, pending, notified,
                   proc, events, fed, failed, lastReturn, dispatcher, stopChCloses,
                   busCtxDone, busStopper, busPanics, running, errored, sinkMode,
                   subscribing, raced>>

\* EventBus.Stop: close(eb.stopCh); closing a closed channel panics.
BusStopClose(b) ==
    /\ busStopper[b] = "idle"
    /\ IF stopChCloses = 0
       THEN /\ stopChCloses' = 1
            /\ busStopper' = [busStopper EXCEPT ![b] = "waiting"]
            /\ UNCHANGED busPanics
       ELSE /\ busPanics' = busPanics \cup {PanicCloseClosed}
            /\ busStopper' = [busStopper EXCEPT ![b] = "panicked"]
            /\ UNCHANGED stopChCloses
    /\ UNCHANGED <<offBusVars, asmVars, dispatcher, busCtxDone, running, errored, publishes,
                   sinkMode, subscribing, raced>>

\* What eb.wg counts: the dispatcher goroutine, from Start until it returns.
BusWaitGroupZero == dispatcher # "running"

\* EventBus.Stop: eb.wg.Wait() returns, and Stop with it.
BusStopWait(b) ==
    /\ busStopper[b] = "waiting"
    /\ BusWaitGroupZero
    /\ busStopper' = [busStopper EXCEPT ![b] = "returned"]
    /\ UNCHANGED <<offBusVars, asmVars, dispatcher, stopChCloses, busCtxDone, busPanics,
                   running, errored, publishes, sinkMode, subscribing, raced>>

\* The state manager under concurrent processEvent calls, with the bus.
AsmNext ==
    \/ \E c \in Callers : \E pod \in Pods : processEvent(c, pod)
    \/ \E c \in Callers : \E err \in {ErrNil} \cup CreateErrors : ProcessAlertCreate(c, err)
    \/ \E c \in Callers : ProcessAlertPublish(c)
    \/ BusStart
    \/ DispatcherReceive
    \/ \E i \in DOMAIN observers : \E id \in Range(taken) : ObserverOnAlert(i, id)

SpecAsm == AsmInit /\ [][AsmNext]_vars

\* The same, from the pipeline as constructed only.
AsmFreshInit ==
    /\ PoolInitWith(1, 1, 0)
    /\ BusNew
    /\ AppUnused
    /\ WatchNew
    /\ EvalUnused
    /\ MailUnused
    /\ HubNew
    /\ AsmInitAfter(0)

SpecAsmFresh == AsmFreshInit /\ [][AsmNext]_vars

\* ----------------------------------------------------------- the event bus

\* The observers the bus tests subscribe before Start.
BusObservers == <<"wsHub", "emailDispatcher">>

\* What the sinks do: all return nil, or the first one fails, or it hangs.
SinkModes ==
    {[o \in Sinks |-> "ok"],
     [o \in Sinks |-> IF o = BusObservers[1] THEN "fail" ELSE "ok"],
     [o \in Sinks |-> IF o = BusObservers[1] THEN "hang" ELSE "ok"]}

\* The bus with its observers subscribed, holding k undispatched events.
BusInitAfter(k, modes) ==
    /\ PoolInitWith(1, 1, 0)
    /\ AsmInitWith(k, BusObservers)
    /\ dispatcher = "none"
    /\ stopChCloses = 0
    /\ busCtxDone = FALSE
    /\ busStopper = [b \in BusStoppers |-> "idle"]
    /\ busPanics = {}
    /\ running = {}
    /\ errored = {}
    /\ publishes = 0
    /\ sinkMode = modes
    /\ subscribing = "none"
    /\ raced = FALSE
    /\ AppUnused
    /\ WatchNew
    /\ EvalUnused
    /\ MailUnused
    /\ HubNew

BusInit == \E k \in {0, EventChanCap} : \E modes \in SinkModes : BusInitAfter(k, modes)

\* Steps of the sinks' notification goroutines.
SinkSteps ==
    \/ \E i \in DOMAIN observers : \E id \in Range(taken) : ObserverOnAlert(i, id)
    \/ \E i \in DOMAIN observers : \E id \in Range(taken) : ObserverReturn(i, id)

\* The bus under direct Publish calls, with its dispatcher and sinks.
BusNext ==
    \/ BusStart
    \/ BusPublish
    \/ DispatcherReceiveUpTo(MaxBusDispatch)
    \/ SinkSteps

SpecBus == BusInit /\ [][BusNext]_vars

\* The bus as constructed, with its observers subscribed.
BusFreshInit == \E modes \in SinkModes : BusInitAfter(0, modes)

\* The Go scheduler runs every goroutine that can run: a notification
\* goroutine that was started calls OnAlert, and the dispatcher, whose select
\* has only its receive arm ready, receives.
BusFairness ==
    /\ \A i \in DOMAIN BusObservers : \A id \in 1..MaxBusDispatch :
          WF_vars(ObserverOnAlert(i, id))
    /\ WF_vars(DispatcherReceiveUpTo(MaxBusDispatch))

SpecBusFair == BusFreshInit /\ [][BusNext]_vars /\ BusFairness

\* Steps of the Stop calls and of the dispatcher's shutdown.
BusStopSteps ==
    \/ \E b \in BusStoppers : BusStopClose(b)
    \/ \E b \in BusStoppers : BusStopWait(b)
    \/ DispatcherStopSignal
    \/ BusCancelCtx
    \/ DispatcherCtxDone

\* The bus under Publish calls, Stop calls and the cancellation of its context.
BusStopNext ==
    \/ BusStart
    \/ BusPublish
    \/ DispatcherReceiveUpTo(MaxBusDispatch)
    \/ SinkSteps
    \/ BusStopSteps

SpecBusStop == BusFreshInit /\ [][BusStopNext]_vars

\* ------------------------------------------------------------------ claims

\* Alerts the bus accepted, in the order it accepted them.
AcceptedByBus == taken \o eventChan

\* Alerts the repository holds.
Persisted == Range(repo)

\* No ProcessAlert call is between its Create and its Publish.
NoneAtPublish == \A c \in Callers : proc[c].pc # "publish"

\* No processEvent call is running.
Quiescent == \A c \in Callers : proc[c].pc = "idle"

\* C1 (as stated): whenever no ProcessAlert call is between persisting and
\* publishing, the alerts the bus accepted are exactly the alerts persisted,
\* none of them twice, also when the channel already holds 200 events.
C1_PublishedExactlyOnce ==
    NoneAtPublish =>
        /\ Range(AcceptedByBus) = Persisted
        /\ Cardinality(Range(AcceptedByBus)) = Len(AcceptedByBus)

\* C1 (amended): the bus accepts no alert twice and only persisted alerts;
\* Publish puts a persisted alert into the channel when the channel holds
\* fewer than 200 events and drops it when the channel holds 200, so the
\* persisted alerts the bus did not accept are exactly the dropped ones.
C1_PublishedAtMostOnce ==
    /\ [](LET accepted == Range(AcceptedByBus)
               persisted == Persisted
           IN  /\ Cardinality(accepted) = Len(AcceptedByBus)
               /\ accepted \subseteq persisted
               /\ Len(eventChan) <= EventChanCap
               /\ NoneAtPublish => persisted \ accepted = dropped)
    /\ [][\A c \in Callers :
            (proc[c].pc = "publish" /\ proc'[c] # proc[c]) =>
                IF Len(eventChan) < EventChanCap
                THEN /\ eventChan' = Append(eventChan, Head(proc[c].todo))
                     /\ dropped' = dropped
                ELSE /\ eventChan' = eventChan
                     /\ dropped' = dropped \cup {Head(proc[c].todo)}]_vars

\* Two ProcessAlert calls are about to publish at the same time, the channel
\* holds 200 events and an earlier alert was dropped.
C1_Witness ==
    /\ \A c \in Callers : proc[c].pc = "publish"
    /\ Len(eventChan) = EventChanCap
    /\ dropped # {}

RecordsOf(ids, pod, alertType) ==
    Cardinality({id \in ids : /\ AlertOf(id).Labels.pod = pod.name
                              /\ AlertOf(id).Labels.alert_type = alertType})

\* Conditions of an alert type that evaluatePodConditions finds on a pod.
Matches(pod, alertType) ==
    Cardinality({i \in DOMAIN PodConditions(pod, PodWatcherConfig) :
                    PodConditions(pod, PodWatcherConfig)[i].alertType = alertType})

\* C3: no deduplication.  The persisted records have distinct IDs, every
\* ProcessAlert whose Create succeeded returns created = true, and once the
\* processEvent calls have returned, a pod event fed k times has k persisted
\* records per matched condition (less those whose Create failed).
C3_NoDeduplication ==
    /\ Cardinality(Persisted) = Len(repo)
    /\ \A f \in failed : f[1] \notin Persisted
    /\ lastReturn.err = ErrNil => lastReturn.created
    /\ Quiescent =>
          \A pod \in Pods : \A alertType \in PodAlertTypes :
              RecordsOf(Persisted \cup {f[1] : f \in failed}, pod, alertType)
              = fed[pod.name] * Matches(pod, alertType)

\* The same pod event, matching two conditions, was processed twice without a
\* Create error, starting from an empty repository: four records.
C3_Witness ==
    /\ Quiescent
    /\ failed = {}
    /\ fed[PodCrash.name] = 2
    /\ fed[PodOOM.name] = 0
    /\ Len(repo) = 4
    /\ lastReturn.created


\* Task t is waiting in the queue.
InQueue(t) == \E i \in 1..Len(taskQueue) : taskQueue[i] = t

\* C4: Submit never blocks.  On a pool that is not stopped the send step of
\* Submit enqueues the task and returns nil when fewer than Q tasks are queued
\* and otherwise returns QueueFull and leaves the queue as it was; a call
\* inside Submit can always take its next step; the queue never holds more
\* than Q tasks.
C4_SubmitNonBlocking ==
    /\ [](Len(taskQueue) <= queueSize)
    /\ [](\A t \in DOMAIN call :
            /\ call[t].pc = "lock" => ENABLED SubmitCheckStopped(t)
            /\ call[t].pc = "send" => ENABLED SubmitSend(t))
    /\ [][\A t \in DOMAIN call :
            (call[t].pc = "send" /\ call'[t].pc = "done" /\ ~stopped) =>
               IF Len(taskQueue) < queueSize
               THEN taskQueue' = Append(taskQueue, t) /\ call'[t].result = ErrNil
               ELSE taskQueue' = taskQueue /\ call'[t].result = ErrQueueFull]_vars

\* C4 witness: Submit has just refused a task on a running pool whose queue is full.
C4_Witness ==
    /\ lastSubmit.result = ErrQueueFull
    /\ ~stopped
    /\ Len(taskQueue) = queueSize
    /\ \E t \in DOMAIN call : call[t].result = ErrNil

\* C5 as claimed: a Submit or SubmitWithContext call made after Stop has
\* returned returns the Stopped error.
C5_StoppedErrorAfterStop ==
    lastSubmit.afterStop => lastSubmit.result = ErrStopped

\* C5 amended: a call made after Stop has returned gets the Stopped error from
\* Submit, or the context's error from SubmitWithContext when its context is
\* already done; its task is never queued and never executed.
C5_RefusedAfterStop ==
    /\ lastSubmit.afterStop =>
          \/ lastSubmit.kind = "Submit" /\ lastSubmit.result = ErrStopped
          \/ lastSubmit.kind = "SubmitWithContext" /\ lastSubmit.result = ErrCanceled
    /\ \A t \in DOMAIN call :
          call[t].afterStop =>
             /\ ~InQueue(t)
             /\ t \notin Executing
             /\ t \notin Begun
             /\ call[t].pc = "done" => call[t].result \in {ErrStopped, ErrCanceled}

\* C5 witness: a Submit made after Stop returned was refused with Stopped
\* while earlier tasks had been accepted.
C5_Witness ==
    /\ lastSubmit.afterStop
    /\ lastSubmit.kind = "Submit"
    /\ lastSubmit.result = ErrStopped
    /\ Accepted # {}

\* C6 as claimed: a Stop call on a started pool returns only when every worker
\* has exited (so no task is executing).
C6_StopReturnsAfterWorkersExit ==
    [][\A s \in Stoppers :
          (stopper[s].pc # "returned" /\ stopper'[s].pc = "returned"
             /\ stopper'[s].startedAtCall) => LiveWorkers = {}]_vars

C8_StopIdempotent ==
    /\ stopCloses <= 1
    /\ queueCloses <= 1
    /\ PanicCloseClosed \notin panics
    /\ \A s \in Stoppers :
          /\ stopper[s].pc = "returned" => IsStopped
          /\ (stopper[s].pc = "returned" /\ stopper[s].first) =>
                (stopCloses = 1 /\ queueCloses = 1)
          /\ stopper[s].pc = "wait" =>
                (stopCloses = 1 /\ \A w \in LiveWorkers :
                                      wk[w].st = "running" \/ ENABLED WorkerStopSignal(w))

\* C8 witness: on a started pool a StopWithTimeout call and a Stop call have
\* both returned, the second of the two Stop executions having found the pool
\* already stopped, and each channel has been closed once.
C8_Witness ==
    /\ started
    /\ \E s1, s2 \in Stoppers :
          /\ s1 # s2
          /\ swt[s1].pc = "returned" /\ stopper[s1].pc = "returned"
          /\ swt[s2].pc = "idle" /\ stopper[s2].pc = "returned"
          /\ stopper[s1].first # stopper[s2].first
    /\ stopCloses = 1 /\ queueCloses = 1

\* C9 as claimed: when StopWithTimeout returns Timeout the pool is already
\* marked stopped, and when it returns nil all workers have exited.
C9_TimeoutContract ==
    [][\A s \in Stoppers :
          (swt[s].pc = "select" /\ swt'[s].pc = "returned") =>
             /\ swt'[s].result = ErrTimeout => stopped
             /\ swt'[s].result = ErrNil => LiveWorkers = {}]_vars

\* The first n submissions of the scenario have all returned nil.
FirstAccepted(n) == \A t \in 1..n : call[t].pc = "done" /\ call[t].result = ErrNil

\* C10 as claimed: in every interleaving the first five submissions succeed
\* and the sixth returns QueueFull.
C10_FiveThenQueueFull ==
    \A t \in DOMAIN call :
       call[t].pc = "done" =>
          call[t].result = IF t <= workerCount + queueSize THEN ErrNil ELSE ErrQueueFull

\* C10 amended: the first three submissions (the queue capacity) always
\* succeed; at most five (workers plus capacity) are ever accepted; when five
\* are accepted two are executing and three are queued; and when the first
\* five succeeded every later submission returns QueueFull.
C10_SaturationAfterFive ==
    /\ \A t \in DOMAIN call :
          (t <= queueSize /\ call[t].pc = "done") => call[t].result = ErrNil
    /\ Cardinality(Accepted) <= workerCount + queueSize
    /\ Cardinality(Accepted) = workerCount + queueSize =>
          /\ Len(taskQueue) = queueSize
          /\ \A w \in Workers : wk[w].st = "running"
    /\ \A t \in DOMAIN call :
          (t > workerCount + queueSize /\ call[t].pc = "done"
             /\ FirstAccepted(workerCount + queueSize)) => call[t].result = ErrQueueFull

\* C10 witness: five submissions accepted, two executing and three queued,
\* and the sixth refused with QueueFull.
C10_Witness ==
    /\ FirstAccepted(workerCount + queueSize)
    /\ Cardinality(Executing) = workerCount
    /\ Len(taskQueue) = queueSize
    /\ call[workerCount + queueSize + 1].result = ErrQueueFull


\* ---------------------------------------------------------------------------
\* websocket.Hub

\* The orders in which a range over the map h.clients can yield its keys.
ClientOrders(cs) ==
    {q \in UNION {[1..n -> cs] : n \in {Cardinality(cs)}} :
        \A i, j \in DOMAIN q : i # j => q[i] # q[j]}

\* The hub holding k messages in its broadcast channel, Run not started.
HubInitAfter(k) ==
    /\ clients = {}
    /\ conn = [c \in HubClients |-> "none"]
    /\ broadcast = [i \in 1..k |-> i]
    /\ hubPc = "none"
    /\ hubMsg = 0
    /\ hubTodo = <<>>
    /\ hubCtxDone = FALSE
    /\ regWaiting = {}
    /\ unregWaiting = {}
    /\ received = [c \in HubClients |-> <<>>]
    /\ hubDropped = {}
    /\ hubSent = 0
    /\ hubTaken = 0
    /\ writeMu = [c \in HubClients |-> "none"]
    /\ reader = [c \in HubClients |-> "none"]
    /\ heartbeat = [c \in HubClients |-> "none"]

\* go wsHub.Run(ctx).
HubRun ==
    /\ hubPc = "none"
    /\ hubPc' = "select"
    /\ UNCHANGED <<offHubVars, scopeVars, clients, conn, broadcast, hubMsg, hubTodo, hubCtxDone,
                   regWaiting, unregWaiting, received, hubDropped, hubSent, hubTaken>>

\* ServeWS: the connection is upgraded and h.Register(client) is called; the
\* send on the unbuffered h.register waits for Run to receive.
ServeWS(c) ==
    /\ conn[c] = "none"
    /\ conn' = [conn EXCEPT ![c] = "open"]
    /\ regWaiting' = regWaiting \cup {c}
    /\ UNCHANGED <<offHubVars, scopeVars, clients, broadcast, hubPc, hubMsg, hubTodo, hubCtxDone,
                   unregWaiting, received, hubDropped, hubSent, hubTaken>>

\* Run: case client := <-h.register.  Register returns and ServeWS starts
\* the client's receive goroutine and its ping goroutine.
RunRegister(c) ==
    /\ hubPc = "select"
    /\ c \in regWaiting
    /\ regWaiting' = regWaiting \ {c}
    /\ clients' = clients \cup {c}
    /\ reader' = [reader EXCEPT ![c] = "reading"]
    /\ heartbeat' = [heartbeat EXCEPT ![c] = "waiting"]
    /\ UNCHANGED <<offHubVars, writeMu, conn, broadcast, hubPc, hubMsg, hubTodo, hubCtxDone,
                   unregWaiting, received, hubDropped, hubSent, hubTaken>>

\* ServeWS, reading goroutine: ReadJSON fails and the deferred
\* h.Unregister(client) is called; the send on the unbuffered h.unregister
\* waits for Run to receive.
Unregister(c) ==
    /\ reader[c] = "reading"
    /\ reader' = [reader EXCEPT ![c] = "unregistering"]
    /\ unregWaiting' = unregWaiting \cup {c}
    /\ UNCHANGED <<offHubVars, writeMu, heartbeat, clients, conn, broadcast, hubPc, hubMsg, hubTodo,
                   hubCtxDone, regWaiting, received, hubDropped, hubSent, hubTaken>>

\* Run: case client := <-h.unregister; the Unregister call of the client's
\* receive goroutine returns.
RunUnregister(c) ==
    /\ hubPc = "select"
    /\ c \in unregWaiting
    /\ unregWaiting' = unregWaiting \ {c}
    /\ reader' = [reader EXCEPT ![c] = "done"]
    /\ IF c \in clients
       THEN /\ clients' = clients \ {c}
            /\ conn' = [conn EXCEPT ![c] = "closed"]
       ELSE UNCHANGED <<clients, conn>>
    /\ UNCHANGED <<offHubVars, writeMu, heartbeat, broadcast, hubPc, hubMsg, hubTodo,
                   hubCtxDone, regWaiting, received, hubDropped, hubSent, hubTaken>>

\* The message a call of Broadcast carries: the messages are numbered in the
\* order of the calls.
NextMessage == Len(broadcast) + hubTaken + Cardinality(hubDropped) + 1

\* A Broadcast that takes the channel to hold one message more.
BroadcastHasRoomOffByOne == Len(broadcast) <= BroadcastCap
\* Broadcast: the send arm of the select is ready.
BroadcastHasRoom == Len(broadcast) < BroadcastCap

\* Hub.Broadcast: select { case h.broadcast <- msg: default: Warn }.
BroadcastSend(msg) ==
    IF BroadcastHasRoom
    THEN /\ broadcast' = Append(broadcast, msg)
         /\ UNCHANGED hubDropped
    ELSE /\ hubDropped' = hubDropped \cup {msg}
         /\ UNCHANGED broadcast

\* Hub.Broadcast called.
Broadcast ==
    /\ hubSent < MaxBroadcasts
    /\ hubSent' = hubSent + 1
    /\ BroadcastSend(NextMessage)
    /\ UNCHANGED <<offHubVars, scopeVars, clients, conn, hubPc, hubMsg, hubTodo, hubCtxDone,
                   regWaiting, unregWaiting, received, hubTaken>>

\* Hub.OnAlert: json.Marshal(event.Alert), an error of which is returned;
\* otherwise the message is given to Broadcast and nil is returned.
HubOnAlert(marshalOk) ==
    /\ hubSent < MaxBroadcasts
    /\ hubSent' = hubSent + 1
    /\ IF marshalOk THEN BroadcastSend(NextMessage)
       ELSE UNCHANGED <<broadcast, hubDropped>>
    /\ UNCHANGED <<offHubVars, scopeVars, clients, conn, hubPc, hubMsg, hubTodo, hubCtxDone,
                   regWaiting, unregWaiting, received, hubTaken>>

\* Run: case message := <-h.broadcast, and the copy of h.clients is made.
RunBroadcast ==
    /\ hubPc = "select"
    /\ broadcast # <<>>
    /\ hubTaken < MaxHubMessages
    /\ hubTaken' = hubTaken + 1
    /\ hubMsg' = Head(broadcast)
    /\ broadcast' = Tail(broadcast)
    /\ hubTodo' \in ClientOrders(clients)
    /\ hubPc' = "writing"
    /\ UNCHANGED <<offHubVars, scopeVars, clients, conn, hubCtxDone, regWaiting, unregWaiting,
                   received, hubDropped, hubSent>>

\* A writeMu that is taken without waiting for its holder.
WriteMuFreeAlways(c) == TRUE
\* c.writeMu.Lock() can return: the mutex is not held.
WriteMuFree(c) == writeMu[c] = "none"

\* Run, in the loop over the copy: client.WriteJSON(message) takes the
\* client's writeMu.
RunWriteLock ==
    /\ hubPc = "writing"
    /\ hubTodo # <<>>
    /\ WriteMuFree(Head(hubTodo))
    /\ writeMu' = [writeMu EXCEPT ![Head(hubTodo)] = "hub"]
    /\ hubPc' = "locked"
    /\ UNCHANGED <<offHubVars, reader, heartbeat, clients, conn, broadcast, hubMsg,
                   hubTodo, hubCtxDone, regWaiting, unregWaiting, received, hubDropped,
                   hubSent, hubTaken>>

\* Run, in the loop over the copy: c.conn.WriteJSON(message) and the deferred
\* Unlock.  When the write fails, Run sends the client on h.unregister, an
\* unbuffered channel that only Run itself receives from.
RunWrite(ok) ==
    /\ hubPc = "locked"
    /\ writeMu' = [writeMu EXCEPT ![Head(hubTodo)] = "none"]
    /\ IF ok /\ conn[Head(hubTodo)] = "open"
       THEN /\ received' = [received EXCEPT ![Head(hubTodo)] = Append(@, hubMsg)]
            /\ hubTodo' = Tail(hubTodo)
            /\ hubPc' = "writing"
       ELSE /\ hubPc' = "unregistering"
            /\ UNCHANGED <<received, hubTodo>>
    /\ UNCHANGED <<offHubVars, reader, heartbeat, clients, conn, broadcast, hubMsg,
                   hubCtxDone, regWaiting, unregWaiting, hubDropped, hubSent, hubTaken>>

\* Run: the loop over the copy ends and Run is at its select again.
RunBroadcastDone ==
    /\ hubPc = "writing"
    /\ hubTodo = <<>>
    /\ hubPc' = "select"
    /\ UNCHANGED <<offHubVars, scopeVars, clients, conn, broadcast, hubMsg, hubTodo, hubCtxDone,
                   regWaiting, unregWaiting, received, hubDropped, hubSent, hubTaken>>

\* The context given to Run is cancelled.
HubCancelCtx ==
    /\ ~hubCtxDone
    /\ hubCtxDone' = TRUE
    /\ UNCHANGED <<offHubVars, scopeVars, clients, conn, broadcast, hubPc, hubMsg, hubTodo,
                   regWaiting, unregWaiting, received, hubDropped, hubSent, hubTaken>>

\* Run: case <-ctx.Done(): return.
RunCtxDone ==
    /\ hubPc = "select"
    /\ hubCtxDone
    /\ hubPc' = "exited"
    /\ UNCHANGED <<offHubVars, scopeVars, clients, conn, broadcast, hubMsg, hubTodo, hubCtxDone,
                   regWaiting, unregWaiting, received, hubDropped, hubSent, hubTaken>>

\* ServeWS, receive goroutine: ReadJSON returns a ping message and
\* client.WriteJSON(pongMsg) takes the client's writeMu.
ReaderPongLock(c) ==
    /\ reader[c] = "reading"
    /\ conn[c] = "open"
    /\ WriteMuFree(c)
    /\ writeMu' = [writeMu EXCEPT ![c] = "reader"]
    /\ reader' = [reader EXCEPT ![c] = "ponging"]
    /\ UNCHANGED <<offHubVars, heartbeat, clients, conn, broadcast, hubPc, hubMsg,
                   hubTodo, hubCtxDone, regWaiting, unregWaiting, received, hubDropped,
                   hubSent, hubTaken>>

\* ServeWS, receive goroutine: c.conn.WriteJSON(pongMsg) and the deferred
\* Unlock; when the write fails the loop breaks and the deferred
\* h.Unregister(client) is called.
ReaderPong(c, ok) ==
    /\ reader[c] = "ponging"
    /\ writeMu' = [writeMu EXCEPT ![c] = "none"]
    /\ IF ok /\ conn[c] = "open"
       THEN /\ reader' = [reader EXCEPT ![c] = "reading"]
            /\ UNCHANGED unregWaiting
       ELSE /\ reader' = [reader EXCEPT ![c] = "unregistering"]
            /\ unregWaiting' = unregWaiting \cup {c}
    /\ UNCHANGED <<offHubVars, heartbeat, clients, conn, broadcast, hubPc, hubMsg,
                   hubTodo, hubCtxDone, regWaiting, received, hubDropped, hubSent,
                   hubTaken>>

\* ServeWS, ping goroutine: the ticker fires and h.clients[client] is looked
\* up; the goroutine returns when the client is not registered.
HeartbeatTick(c) ==
    /\ heartbeat[c] = "waiting"
    /\ heartbeat' = [heartbeat EXCEPT ![c] = IF c \in clients THEN "checked" ELSE "exited"]
    /\ UNCHANGED <<offHubVars, writeMu, reader, clients, conn, broadcast, hubPc, hubMsg,
                   hubTodo, hubCtxDone, regWaiting, unregWaiting, received, hubDropped,
                   hubSent, hubTaken>>

\* ServeWS, ping goroutine: client.WriteControl(PingMessage) takes the
\* client's writeMu.
HeartbeatPingLock(c) ==
    /\ heartbeat[c] = "checked"
    /\ WriteMuFree(c)
    /\ writeMu' = [writeMu EXCEPT ![c] = "heartbeat"]
    /\ heartbeat' = [heartbeat EXCEPT ![c] = "pinging"]
    /\ UNCHANGED <<offHubVars, reader, clients, conn, broadcast, hubPc, hubMsg, hubTodo,
                   hubCtxDone, regWaiting, unregWaiting, received, hubDropped, hubSent,
                   hubTaken>>

\* ServeWS, ping goroutine: c.conn.WriteControl and the deferred Unlock; when
\* the write fails the error is logged and the goroutine returns.
HeartbeatPing(c, ok) ==
    /\ heartbeat[c] = "pinging"
    /\ writeMu' = [writeMu EXCEPT ![c] = "none"]
    /\ heartbeat' = [heartbeat EXCEPT ![c] = IF ok /\ conn[c] = "open" THEN "waiting"
                                             ELSE "exited"]
    /\ UNCHANGED <<offHubVars, reader, clients, conn, broadcast, hubPc, hubMsg, hubTodo,
                   hubCtxDone, regWaiting, unregWaiting, received, hubDropped, hubSent,
                   hubTaken>>

\* The steps of the goroutines ServeWS starts for client c.
ScopeSteps(c) ==
    \/ Unregister(c)
    \/ ReaderPongLock(c)
    \/ \E ok \in BOOLEAN : ReaderPong(c, ok)
    \/ HeartbeatTick(c)
    \/ HeartbeatPingLock(c)
    \/ \E ok \in BOOLEAN : HeartbeatPing(c, ok)

\* The steps of the goroutine of Run.
RunSteps ==
    \/ \E c \in HubClients : RunRegister(c)
    \/ \E c \in HubClients : RunUnregister(c)
    \/ RunBroadcast
    \/ RunWriteLock
    \/ \E ok \in BOOLEAN : RunWrite(ok)
    \/ RunBroadcastDone
    \/ RunCtxDone

HubInit ==
    /\ PoolInitWith(1, 1, 0)
    /\ AsmUnused
    /\ BusNew
    /\ AppUnused
    /\ WatchNew
    /\ EvalUnused
    /\ MailUnused
    /\ \E k \in {0, BroadcastCap} : HubInitAfter(k)

HubNext ==
    \/ HubRun
    \/ \E c \in HubClients : ServeWS(c)
    \/ \E c \in HubClients : Unregister(c)
    \/ Broadcast
    \/ \E marshalOk \in BOOLEAN : HubOnAlert(marshalOk)
    \/ HubCancelCtx
    \/ RunSteps

SpecHub == HubInit /\ [][HubNext]_vars

\* The hub as constructed.
HubFreshInit ==
    /\ PoolInitWith(1, 1, 0)
    /\ AsmUnused
    /\ BusNew
    /\ AppUnused
    /\ WatchNew
    /\ EvalUnused
    /\ MailUnused
    /\ HubNew

\* The client followed with its receive and ping goroutines.
ScopeClients == {"c1"}

\* The hub with one client, its receive goroutine and its ping goroutine.
HubScopeNext ==
    \/ HubRun
    \/ \E c \in ScopeClients : ServeWS(c)
    \/ \E c \in ScopeClients : ScopeSteps(c)
    \/ Broadcast
    \/ HubCancelCtx
    \/ RunSteps

SpecHubScope == HubFreshInit /\ [][HubScopeNext]_vars

\* The Go scheduler runs every goroutine that can run, and a select with
\* several ready arms, executed again and again, takes each of them: Run
\* goes on in its loop over the clients and receives from h.unregister and
\* from h.register when senders wait there.
HubFairness ==
    /\ WF_vars(HubRun)
    /\ WF_vars(RunWriteLock)
    /\ WF_vars(\E ok \in BOOLEAN : RunWrite(ok))
    /\ WF_vars(RunBroadcastDone)
    /\ \A c \in HubClients : SF_vars(RunUnregister(c)) /\ SF_vars(RunRegister(c))

SpecHubFair == HubFreshInit /\ [][HubScopeNext]_vars /\ HubFairness


\* ---------------------------------------------------------------------------
\* cmd/monitoring-tool: init()

\* The calls of init() that set up monitoring, in their order; "serving" is
\* the application after init().
MainCalls == <<"initEventBus", "initWebSocketHub", "initEmailDispatcher",
               "initAlertEngine", "initK8sWatchers", "serving">>

\* The application at the call of initEventBus, with nothing constructed or
\* started yet besides the objects themselves.
AppInit ==
    /\ PoolInitWith(1, 1, 0)
    /\ AsmInitFor(0, <<>>, Sinks)
    /\ BusNew
    /\ HubNew
    /\ WatchNew
    /\ EvalUnused
    /\ MailUnused
    /\ mainPc = MainCalls[1]
    /\ emailEnabled \in BOOLEAN

\* initEventBus: NewEventBus, eventBus.Start(ctx).
InitEventBus ==
    /\ mainPc = "initEventBus"
    /\ BusStart

\* initWebSocketHub: NewHub, eventBus.Subscribe(wsHub).
InitWebSocketHubSubscribe ==
    /\ mainPc = "initWebSocketHub"
    /\ "wsHub" \notin Range(observers)
    /\ SubscribeBegin("wsHub")

\* initWebSocketHub: go wsHub.Run(ctx).
InitWebSocketHubRun ==
    /\ mainPc = "initWebSocketHub"
    /\ "wsHub" \in Range(observers)
    /\ HubRun

\* initEmailDispatcher: eventBus.Subscribe(emailDispatcher) when cfg.Email is
\* enabled and complete.
InitEmailDispatcher ==
    /\ mainPc = "initEmailDispatcher"
    /\ emailEnabled
    /\ "emailDispatcher" \notin Range(observers)
    /\ SubscribeBegin("emailDispatcher")

\* initAlertEngine: NewEvaluatorEngine, alertEngine.Start(ctx), which starts
\* the worker pool.
InitAlertEngine ==
    /\ mainPc = "initAlertEngine"
    /\ Start

\* The call init() is in has done its work.
CallDone ==
    CASE mainPc = "initEventBus" -> busStarted
      [] mainPc = "initWebSocketHub" -> hubPc # "none"
      [] mainPc = "initEmailDispatcher" ->
            /\ subscribing = "none"
            /\ emailEnabled => "emailDispatcher" \in Range(observers)
      [] mainPc = "initAlertEngine" -> started
      [] mainPc = "initK8sWatchers" -> TRUE
      [] OTHER -> FALSE

\* The call init() is in returns and init() makes its next call.
MainReturn ==
    /\ CallDone
    /\ \E n \in DOMAIN MainCalls :
          /\ MainCalls[n] = mainPc
          /\ mainPc' = MainCalls[n + 1]
    /\ UNCHANGED <<poolVars, asmVars, busVars, emailEnabled, hubVars, watchVars, evalVars,
                   mailVars>>

\* Publishers that run before the sinks are subscribed.
PublishersStartedEarly == TRUE
\* The watchers, whose tasks alone call ProcessAlert and through it Publish,
\* are started by initK8sWatchers.
PublishersStarted == mainPc \in {"initK8sWatchers", "serving"}

\* A watcher's task publishes an event.
AppPublish ==
    /\ PublishersStarted
    /\ BusPublish

AppNext ==
    \/ InitEventBus
    \/ InitWebSocketHubSubscribe
    \/ InitWebSocketHubRun
    \/ InitEmailDispatcher
    \/ SubscribeEnd
    \/ InitAlertEngine
    \/ MainReturn
    \/ AppPublish
    \/ DispatcherReceiveUpTo(MaxBusDispatch)
    \/ SinkSteps

SpecApp == AppInit /\ [][AppNext]_vars


\* ---------------------------------------------------------------------------
\* collector.PodWatcher / collector.NodeWatcher

\* NewPodWatcher, NewNodeWatcher: make(chan, 500), make(chan, 300).
WatchChanCap == IF wKind = "pod" THEN PodEventChanCap ELSE NodeEventChanCap

\* The watcher of the given kind, its eventChan holding k events, not started.
WatchInitAfter(kind, k) ==
    /\ wKind = kind
    /\ wChan = [i \in 1..k |-> i]
    /\ stream = "none"
    /\ wDisp = "none"
    /\ wStopClosed = FALSE
    /\ watchCtxDone = FALSE
    /\ wSeen = 0
    /\ wDropped = {}
    /\ wSubmitted = <<>>
    /\ wStopper = "idle"
    /\ mPc = "none"
    /\ mStopClosed = FALSE
    /\ mAttempts = <<>>
    /\ mTicks = 0
    /\ mStopper = "idle"

\* The variables of the metrics watcher.
metricsVars == <<mPc, mStopClosed, mAttempts, mTicks, mStopper>>

\* Start: wg.Add(1); go eventDispatcher(ctx); wg.Add(1); go watchPods(ctx).
WatcherStart ==
    /\ stream = "none"
    /\ wDisp = "none"
    /\ stream' = "disconnected"
    /\ wDisp' = "running"
    /\ UNCHANGED <<offWatchVars, metricsVars, wKind, wChan, wStopClosed, watchCtxDone,
                   wSeen, wDropped, wSubmitted, wStopper>>

\* watchPods, top of the loop: case <-stopCh: return; case <-ctx.Done(): return.
WatchLoopExit ==
    /\ stream = "disconnected"
    /\ wStopClosed \/ watchCtxDone
    /\ stream' = "exited"
    /\ UNCHANGED <<offWatchVars, metricsVars, wKind, wChan, wDisp, wStopClosed,
                   watchCtxDone, wSeen, wDropped, wSubmitted, wStopper>>

\* A watcher that gives up when its watch is closed or cannot be opened.
AfterWatchLostGiveUp(next) == "exited"
\* watchPods: `continue` after a failed dial, and the return of the inner
\* function on a closed watch, lead to the top of the loop.
AfterWatchLost(next) == next

\* watchPods, top of the loop: default, then clientset.CoreV1().Pods("").Watch;
\* on an error the watcher sleeps 5 s.
WatchDial(ok) ==
    /\ stream = "disconnected"
    /\ ~wStopClosed
    /\ ~watchCtxDone
    /\ stream' = IF ok THEN "streaming" ELSE AfterWatchLost("sleeping")
    /\ UNCHANGED <<offWatchVars, metricsVars, wKind, wChan, wDisp, wStopClosed,
                   watchCtxDone, wSeen, wDropped, wSubmitted, wStopper>>

\* watchPods: time.Sleep(5 * time.Second) returns; continue.
WatchSleepDone ==
    /\ stream = "sleeping"
    /\ stream' = "disconnected"
    /\ UNCHANGED <<offWatchVars, metricsVars, wKind, wChan, wDisp, wStopClosed,
                   watchCtxDone, wSeen, wDropped, wSubmitted, wStopper>>

\* The event the upstream watch delivers next: the events are numbered in
\* the order of their arrival at eventChan.
NextWatchEvent == Len(wChan) + Len(wSubmitted) + Cardinality(wDropped) + 1

\* A watcher that takes its channel to hold one event more.
WatchChanHasRoomOffByOne == Len(wChan) <= WatchChanCap
\* watchPods: the send arm of select { case pw.eventChan <- podEvent: default: }.
WatchChanHasRoom == Len(wChan) < WatchChanCap

\* watchPods, streaming: case event, ok := <-watcher.ResultChan() with ok; an
\* object that is not a pod is skipped; otherwise the event is sent to
\* eventChan, or dropped when eventChan is full.
WatchReceive(isPod) ==
    /\ stream = "streaming"
    /\ wSeen < MaxWatchEvents
    /\ wSeen' = wSeen + 1
    /\ IF ~isPod THEN UNCHANGED <<wChan, wDropped>>
       ELSE IF WatchChanHasRoom
       THEN /\ wChan' = Append(wChan, NextWatchEvent)
            /\ UNCHANGED wDropped
       ELSE /\ wDropped' = wDropped \cup {NextWatchEvent}
            /\ UNCHANGED wChan
    /\ UNCHANGED <<offWatchVars, metricsVars, wKind, stream, wDisp, wStopClosed,
                   watchCtxDone, wSubmitted, wStopper>>

\* watchPods, streaming: the watch channel is closed; the inner function
\* returns (defer watcher.Stop()) and the loop starts over.
WatchClosed ==
    /\ stream = "streaming"
    /\ stream' = AfterWatchLost("disconnected")
    /\ UNCHANGED <<offWatchVars, metricsVars, wKind, wChan, wDisp, wStopClosed,
                   watchCtxDone, wSeen, wDropped, wSubmitted, wStopper>>

\* watchPods, streaming: case <-stopCh: return; case <-ctx.Done(): return.
\* The inner function returns and the top of the loop returns in its turn.
WatchStreamExit ==
    /\ stream = "streaming"
    /\ wStopClosed \/ watchCtxDone
    /\ stream' = "disconnected"
    /\ UNCHANGED <<offWatchVars, metricsVars, wKind, wChan, wDisp, wStopClosed,
                   watchCtxDone, wSeen, wDropped, wSubmitted, wStopper>>

\* The errors SubmitWithContext returns: the context's error, or that of
\* Submit.
SubmitOutcomes == {ErrNil, ErrQueueFull, ErrStopped, ErrCanceled}

\* A receive that leaves the event in the channel.
AfterReceiveKept(ch) == ch
\* event := <-eventChan takes the first event out of the channel.
AfterReceive(ch) == Tail(ch)

\* eventDispatcher: case event := <-eventChan; SubmitWithContext, whose error
\* is logged.
EventDispatch(err) ==
    /\ wDisp = "running"
    /\ wChan # <<>>
    /\ Len(wSubmitted) < MaxWatchEvents
    /\ wChan' = AfterReceive(wChan)
    /\ wSubmitted' = Append(wSubmitted, <<Head(wChan), err>>)
    /\ UNCHANGED <<offWatchVars, metricsVars, wKind, stream, wDisp, wStopClosed,
                   watchCtxDone, wSeen, wDropped, wStopper>>

\* eventDispatcher: case <-stopCh: return; case <-ctx.Done(): return.
EventDispatcherExit ==
    /\ wDisp = "running"
    /\ wStopClosed \/ watchCtxDone
    /\ wDisp' = "exited"
    /\ UNCHANGED <<offWatchVars, metricsVars, wKind, wChan, stream, wStopClosed,
                   watchCtxDone, wSeen, wDropped, wSubmitted, wStopper>>

\* The context given to the watchers' Start is cancelled.
WatchCancelCtx ==
    /\ ~watchCtxDone
    /\ watchCtxDone' = TRUE
    /\ UNCHANGED <<offWatchVars, metricsVars, wKind, wChan, stream, wDisp, wStopClosed,
                   wSeen, wDropped, wSubmitted, wStopper>>

\* Stop: close(stopCh).
WatcherStopClose ==
    /\ wStopper = "idle"
    /\ wStopper' = "waiting"
    /\ wStopClosed' = TRUE
    /\ UNCHANGED <<offWatchVars, metricsVars, wKind, wChan, stream, wDisp, watchCtxDone,
                   wSeen, wDropped, wSubmitted>>

\* What the watcher's wg counts: the two goroutines of Start, until they return.
WatcherWaitGroupZero ==
    /\ stream \in {"none", "exited"}
    /\ wDisp \in {"none", "exited"}

\* Stop: wg.Wait() returns, and Stop with it.
WatcherStopWait ==
    /\ wStopper = "waiting"
    /\ WatcherWaitGroupZero
    /\ wStopper' = "returned"
    /\ UNCHANGED <<offWatchVars, metricsVars, wKind, wChan, stream, wDisp, wStopClosed,
                   watchCtxDone, wSeen, wDropped, wSubmitted>>

\* The steps of the goroutine of watchPods / watchNodes.
WatchSteps ==
    \/ WatchLoopExit
    \/ \E ok \in BOOLEAN : WatchDial(ok)
    \/ WatchSleepDone
    \/ \E isPod \in BOOLEAN : WatchReceive(isPod)
    \/ WatchClosed
    \/ WatchStreamExit

\* The steps of the goroutine of eventDispatcher.
EventDispatcherSteps ==
    \/ \E err \in SubmitOutcomes : EventDispatch(err)
    \/ EventDispatcherExit

WatchInit ==
    /\ PoolInitWith(1, 1, 0)
    /\ AsmUnused
    /\ BusNew
    /\ \* init() and the hub are not modelled here
       mainPc = "none" /\ emailEnabled = FALSE
    /\ HubNew
    /\ EvalUnused
    /\ MailUnused
    /\ \E kind \in {"pod", "node"} :
          \E k \in {0, IF kind = "pod" THEN PodEventChanCap ELSE NodeEventChanCap} :
              WatchInitAfter(kind, k)

WatchNext ==
    \/ WatcherStart
    \/ WatchSteps
    \/ EventDispatcherSteps
    \/ WatchCancelCtx
    \/ WatcherStopClose
    \/ WatcherStopWait

SpecWatch == WatchInit /\ [][WatchNext]_vars

\* The watchers as constructed.
WatchFreshInit ==
    /\ PoolInitWith(1, 1, 0)
    /\ AsmUnused
    /\ BusNew
    /\ mainPc = "none" /\ emailEnabled = FALSE
    /\ HubNew
    /\ EvalUnused
    /\ MailUnused
    /\ \E kind \in {"pod", "node"} : WatchInitAfter(kind, 0)

\* The Go scheduler runs the dispatcher goroutine when it can receive.
WatchFairness == WF_vars(\E err \in SubmitOutcomes : EventDispatch(err))

SpecWatchFair == WatchFreshInit /\ [][WatchNext]_vars /\ WatchFairness


\* ---------------------------------------------------------------------------
\* collector.MetricsWatcher

\* The variables of the pod and node watchers.
streamVars == <<wKind, wChan, stream, wDisp, wStopClosed, wSeen, wDropped, wSubmitted,
                wStopper>>

\* Start: wg.Add(1); go metricsLoop(ctx), which calls checkAllMetrics before
\* its loop.
MetricsStart ==
    /\ mPc = "none"
    /\ mPc' = "podSubmit"
    /\ UNCHANGED <<offWatchVars, streamVars, watchCtxDone, mStopClosed, mAttempts, mTicks,
                   mStopper>>

\* A checkAllMetrics that gives up when its first submission fails.
AfterPodSubmitUnlessFailed(err) == IF err = ErrNil THEN "nodeSubmit" ELSE "select"
\* checkAllMetrics: the error of the first SubmitWithContext is logged and
\* the second submission follows.
AfterPodSubmit(err) == "nodeSubmit"

\* checkAllMetrics: SubmitWithContext of the pod metrics check.
MetricsSubmitPod(err) ==
    /\ mPc = "podSubmit"
    /\ mAttempts' = Append(mAttempts, <<"pod", err>>)
    /\ mPc' = AfterPodSubmit(err)
    /\ UNCHANGED <<offWatchVars, streamVars, watchCtxDone, mStopClosed, mTicks, mStopper>>

\* checkAllMetrics: SubmitWithContext of the node metrics check;
\* checkAllMetrics returns to the select of metricsLoop.
MetricsSubmitNode(err) ==
    /\ mPc = "nodeSubmit"
    /\ mAttempts' = Append(mAttempts, <<"node", err>>)
    /\ mPc' = "select"
    /\ UNCHANGED <<offWatchVars, streamVars, watchCtxDone, mStopClosed, mTicks, mStopper>>

\* metricsLoop: case <-ticker.C: checkAllMetrics.
MetricsTick ==
    /\ mPc = "select"
    /\ mTicks < MaxTicks
    /\ mTicks' = mTicks + 1
    /\ mPc' = "podSubmit"
    /\ UNCHANGED <<offWatchVars, streamVars, watchCtxDone, mStopClosed, mAttempts,
                   mStopper>>

\* metricsLoop: case <-stopCh: return; case <-ctx.Done(): return.
MetricsLoopExit ==
    /\ mPc = "select"
    /\ mStopClosed \/ watchCtxDone
    /\ mPc' = "exited"
    /\ UNCHANGED <<offWatchVars, streamVars, watchCtxDone, mStopClosed, mAttempts, mTicks,
                   mStopper>>

\* The context given to the metrics watcher's Start is cancelled.
MetricsCancelCtx ==
    /\ ~watchCtxDone
    /\ watchCtxDone' = TRUE
    /\ UNCHANGED <<offWatchVars, streamVars, mPc, mStopClosed, mAttempts, mTicks, mStopper>>

\* Stop: close(stopCh).
MetricsStopClose ==
    /\ mStopper = "idle"
    /\ mStopper' = "waiting"
    /\ mStopClosed' = TRUE
    /\ UNCHANGED <<offWatchVars, streamVars, watchCtxDone, mPc, mAttempts, mTicks>>

\* Stop: wg.Wait() returns once metricsLoop has returned, and Stop with it.
MetricsStopWait ==
    /\ mStopper = "waiting"
    /\ mPc \in {"none", "exited"}
    /\ mStopper' = "returned"
    /\ UNCHANGED <<offWatchVars, streamVars, watchCtxDone, mPc, mStopClosed, mAttempts,
                   mTicks>>

\* The steps of the goroutine of metricsLoop.
MetricsSteps ==
    \/ \E err \in SubmitOutcomes : MetricsSubmitPod(err)
    \/ \E err \in SubmitOutcomes : MetricsSubmitNode(err)
    \/ MetricsTick
    \/ MetricsLoopExit

MetricsNext ==
    \/ MetricsStart
    \/ MetricsSteps
    \/ MetricsCancelCtx
    \/ MetricsStopClose
    \/ MetricsStopWait

SpecMetrics == WatchFreshInit /\ [][MetricsNext]_vars


\* ---------------------------------------------------------------------------
\* cmd/monitoring-tool: init(), main() and shutdown()

\* The calls shutdown() makes after srv.Shutdown, in their order; "stopped"
\* is shutdown() after eventBus.Stop has returned.  podWatcher.Stop and
\* nodeWatcher.Stop run the same code on two watchers, of which one is
\* followed.
ShutdownCalls == <<"appCancel", "metricsWatcher.Stop", "podWatcher.Stop",
                   "alertEngine.Stop", "eventBus.Stop", "stopped">>

\* initK8sWatchers: podWatcher.Start(ctx) (nodeWatcher.Start likewise).
InitK8sWatchersStart ==
    /\ mainPc = "initK8sWatchers"
    /\ WatcherStart

\* initK8sWatchers: metricsWatcher.Start(ctx).
InitK8sWatchersMetrics ==
    /\ mainPc = "initK8sWatchers"
    /\ stream # "none"
    /\ MetricsStart

\* initK8sWatchers has started its watchers.
K8sWatchersStarted == stream # "none" /\ mPc # "none"

\* A call of init() returns; initK8sWatchers returns after its three Start calls.
InitReturn ==
    /\ mainPc = "initK8sWatchers" => K8sWatchersStarted
    /\ MainReturn

\* A client connects while the HTTP server serves.
ServingServeWS(c) ==
    /\ mainPc = "serving"
    /\ ServeWS(c)

\* The hub is given its first message while the HTTP server serves.
ServingBroadcast ==
    /\ mainPc = "serving"
    /\ hubSent = 0
    /\ Broadcast

\* main: waitForShutdown returns on SIGINT or SIGTERM; shutdown() calls
\* srv.Shutdown, which leaves the monitoring components alone.
WaitForShutdown ==
    /\ mainPc = "serving"
    /\ mainPc' = ShutdownCalls[1]
    /\ UNCHANGED <<poolVars, asmVars, busVars, emailEnabled, hubVars, watchVars, evalVars,
                   mailVars>>

\* shutdown: appCancel() cancels the context every Start and Run was given.
AppCancel ==
    /\ mainPc = "appCancel"
    /\ poolCtxDone' = TRUE
    /\ busCtxDone' = TRUE
    /\ hubCtxDone' = TRUE
    /\ watchCtxDone' = TRUE
    /\ mainPc' = "metricsWatcher.Stop"
    /\ UNCHANGED <<asmVars, emailEnabled, scopeVars, metricsVars, streamVars, evalVars, mailVars>>
    /\ UNCHANGED <<workerCount, queueSize, taskQueue, queueCloses, stopCloses, stopped,
                   started, wk, call, lastSubmit, stopper, swt, panics>>
    /\ UNCHANGED <<dispatcher, stopChCloses, busStopper, busPanics, running, errored,
                   publishes, sinkMode, subscribing, raced>>
    /\ UNCHANGED <<clients, conn, broadcast, hubPc, hubMsg, hubTodo, regWaiting,
                   unregWaiting, received, hubDropped, hubSent, hubTaken>>

\* shutdown: metricsWatcher.Stop().
ShutdownMetricsWatcherStop ==
    /\ mainPc = "metricsWatcher.Stop"
    /\ (MetricsStopClose \/ MetricsStopWait)

\* shutdown: podWatcher.Stop(), nodeWatcher.Stop().
ShutdownWatcherStop ==
    /\ mainPc = "podWatcher.Stop"
    /\ (WatcherStopClose \/ WatcherStopWait)

\* shutdown: alertEngine.Stop(), which is workerPool.Stop().
ShutdownAlertEngineStop ==
    /\ mainPc = "alertEngine.Stop"
    /\ (StopLock(1) \/ StopCloseStopChan(1) \/ StopWait(1) \/ StopCloseQueue(1))

\* shutdown: eventBus.Stop().
ShutdownEventBusStop ==
    /\ mainPc = "eventBus.Stop"
    /\ (BusStopClose("shutdown") \/ BusStopWait("shutdown"))

\* The Stop call shutdown() is in has returned.
StopReturned ==
    CASE mainPc = "metricsWatcher.Stop" -> mStopper = "returned"
      [] mainPc = "podWatcher.Stop" -> wStopper = "returned"
      [] mainPc = "alertEngine.Stop" -> stopper[1].pc = "returned"
      [] mainPc = "eventBus.Stop" -> busStopper["shutdown"] = "returned"
      [] OTHER -> FALSE

\* The Stop call shutdown() is in returns and shutdown() makes its next call.
ShutdownReturn ==
    /\ StopReturned
    /\ \E n \in DOMAIN ShutdownCalls :
          /\ ShutdownCalls[n] = mainPc
          /\ mainPc' = ShutdownCalls[n + 1]
    /\ UNCHANGED <<poolVars, asmVars, busVars, emailEnabled, hubVars, watchVars, evalVars,
                   mailVars>>

\* The steps of init() and of shutdown().
MainSteps ==
    \/ InitEventBus
    \/ InitWebSocketHubSubscribe
    \/ InitWebSocketHubRun
    \/ InitEmailDispatcher
    \/ SubscribeEnd
    \/ InitAlertEngine
    \/ InitK8sWatchersStart
    \/ InitK8sWatchersMetrics
    \/ InitReturn
    \/ AppCancel
    \/ ShutdownMetricsWatcherStop
    \/ ShutdownWatcherStop
    \/ ShutdownAlertEngineStop
    \/ ShutdownEventBusStop
    \/ ShutdownReturn

\* The steps of the watcher's stream goroutine that need no upstream event.
WatchLoopSteps ==
    \/ WatchLoopExit
    \/ WatchSleepDone
    \/ WatchStreamExit

\* The steps of metricsLoop whose submissions are accepted.
MetricsLoopSteps ==
    \/ MetricsSubmitPod(ErrNil)
    \/ MetricsSubmitNode(ErrNil)
    \/ MetricsLoopExit

\* The steps by which an idle worker returns.
WorkerExitSteps ==
    \/ \E w \in Workers : WorkerStopSignal(w)
    \/ \E w \in Workers : WorkerCtxDone(w)

\* The steps by which the bus dispatcher returns.
DispatcherExitSteps ==
    \/ DispatcherStopSignal
    \/ DispatcherCtxDone

\* The steps of the goroutine of Run with a client that stays connected.
RunLoopSteps ==
    \/ \E c \in ScopeClients : RunRegister(c)
    \/ RunBroadcast
    \/ RunWriteLock
    \/ \E ok \in BOOLEAN : RunWrite(ok)
    \/ RunBroadcastDone
    \/ RunCtxDone

\* The application from init() to the end of shutdown(), with one client of
\* the hub, one message, idle workers and watchers without upstream events;
\* the metrics watcher makes its immediate check.
ShutdownNext ==
    \/ MainSteps
    \/ WaitForShutdown
    \/ \E c \in ScopeClients : ServingServeWS(c)
    \/ ServingBroadcast
    \/ RunLoopSteps
    \/ WorkerExitSteps
    \/ DispatcherExitSteps
    \/ \E ok \in BOOLEAN : WatchDial(ok)
    \/ WatchClosed
    \/ WatchLoopSteps
    \/ EventDispatcherExit
    \/ MetricsLoopSteps

\* The Go scheduler runs every goroutine that can take a step: main, Run,
\* the workers, the dispatchers and the loops of the watchers.  The
\* arrival of a signal, of a client and of a message and the outcome of a
\* dial are left to the environment.
ShutdownFairness ==
    /\ WF_vars(MainSteps)
    /\ HubFairness
    /\ WF_vars(RunBroadcast)
    /\ WF_vars(RunCtxDone)
    /\ WF_vars(WorkerExitSteps)
    /\ WF_vars(DispatcherExitSteps)
    /\ WF_vars(WatchLoopSteps)
    /\ WF_vars(EventDispatcherExit)
    /\ WF_vars(MetricsLoopSteps)

SpecShutdown == AppInit /\ [][ShutdownNext]_vars /\ ShutdownFairness


\* ---------------------------------------------------------------------------
\* collector: the alert rules (evaluatePodConditions, evaluateNodeConditions,
\* checkPodMetrics, checkNodeMetrics) and the alert builders

\* Number of evaluations made of one input.
MaxEvals == 2
\* The clock advances in steps of ClockStep seconds, up to MaxClock.
ClockStep == 150
MaxClock == 600

AlertTypeNodeNotReady == "node_not_ready"
AlertTypeNodeMemoryPressure == "node_memory_pressure"
AlertTypeNodeDiskPressure == "node_disk_pressure"
AlertTypeNodePIDPressure == "node_pid_pressure"
AlertTypePodCPUHigh == "pod_cpu_high"
AlertTypePodMemoryHigh == "pod_memory_high"
AlertTypeNodeCPUHigh == "node_cpu_high"
AlertTypeNodeMemoryHigh == "node_memory_high"

\* cfg.AlertRules as NewMetricsWatcher reads it, with the percentages of the
\* configuration example; percentages are whole numbers in the model.
MetricThresholds ==
    [PodCPUPercent |-> 80, PodMemoryPercent |-> 85,
     NodeCPUPercent |-> 70, NodeMemoryPercent |-> 75]

\* time.Since(t) at the time now.
Since(t, now) == now - t

\* The pod as evaluatePodConditions sees it at the time now: its age is
\* time.Since(pod.CreationTimestamp.Time).
WithAge(pod, now) ==
    [f \in DOMAIN pod \cup {"age"} |->
        IF f = "age" THEN Since(pod.created, now) ELSE pod[f]]

\* getNodeConditionReason: the Reason of the first condition of the type, its
\* Status when the Reason is empty, "Unknown" without such a condition.
getNodeConditionReason(node, conditionType) ==
    LET I == {i \in DOMAIN node.conditions : node.conditions[i].type = conditionType}
    IN  IF I = {} THEN "Unknown"
        ELSE IF node.conditions[First(I)].reason # ""
        THEN node.conditions[First(I)].reason
        ELSE node.conditions[First(I)].status

\* A BuildNodeAlert that gives every alert the severity of its default case.
NodeAlertSeverityFlat(alertType) == SeverityMedium
\* BuildNodeAlert: the severity its switch assigns.
NodeAlertSeverity(alertType) ==
    CASE alertType = AlertTypeNodeNotReady -> SeverityCritical
      [] alertType = AlertTypeNodeMemoryPressure -> SeverityHigh
      [] alertType = AlertTypeNodeDiskPressure -> SeverityHigh
      [] alertType = AlertTypeNodePIDPressure -> SeverityMedium
      [] OTHER -> SeverityMedium

BuildNodeAlert(node, alertType, value, id) ==
    LET labels == [node |-> node.name, alert_type |-> alertType]
        message ==
            CASE alertType = AlertTypeNodeNotReady ->
                   <<"Node ", node.name, " is NOT READY - Status: ",
                     getNodeConditionReason(node, "Ready")>>
              [] alertType = AlertTypeNodeMemoryPressure ->
                   <<"Node ", node.name,
                     " has MEMORY PRESSURE - Available memory is low">>
              [] alertType = AlertTypeNodeDiskPressure ->
                   <<"Node ", node.name,
                     " has DISK PRESSURE - Disk space is running low">>
              [] alertType = AlertTypeNodePIDPressure ->
                   <<"Node ", node.name,
                     " has PID PRESSURE - Too many processes running">>
              [] OTHER -> <<"Node ", node.name, " issue detected - Type: ", alertType>>
    IN  NewAlert(id, NodeAlertSeverity(alertType), message, "k8s_node", value, labels)

BuildPodMetricAlert(namespace, podName, alertType, value, threshold, id) ==
    LET labels == [namespace |-> namespace, pod |-> podName, alert_type |-> alertType,
                   metric |-> CASE alertType = AlertTypePodCPUHigh -> "cpu"
                                [] alertType = AlertTypePodMemoryHigh -> "memory"
                                [] OTHER -> ""]
        who == <<"Pod ", namespace, "/", podName>>
        figures == <<ToString(value), "% (threshold: ", ToString(threshold), "%)">>
    IN  CASE alertType = AlertTypePodCPUHigh ->
               NewAlert(id, SeverityHigh, who \o <<" CPU usage is HIGH: ">> \o figures,
                        "k8s_pod_metrics", value, labels)
          [] alertType = AlertTypePodMemoryHigh ->
               NewAlert(id, SeverityHigh, who \o <<" Memory usage is HIGH: ">> \o figures,
                        "k8s_pod_metrics", value, labels)
          [] OTHER ->
               NewAlert(id, SeverityMedium, who \o <<" metric alert">>,
                        "k8s_pod_metrics", value, labels)

BuildNodeMetricAlert(nodeName, alertType, value, threshold, id) ==
    LET labels == [node |-> nodeName, alert_type |-> alertType,
                   metric |-> CASE alertType = AlertTypeNodeCPUHigh -> "cpu"
                                [] alertType = AlertTypeNodeMemoryHigh -> "memory"
                                [] OTHER -> ""]
        who == <<"Node ", nodeName>>
        figures == <<ToString(value), "% (threshold: ", ToString(threshold), "%)">>
    IN  CASE alertType = AlertTypeNodeCPUHigh ->
               NewAlert(id, SeverityCritical,
                        who \o <<" CPU usage is CRITICAL: ">> \o figures,
                        "k8s_node_metrics", value, labels)
          [] alertType = AlertTypeNodeMemoryHigh ->
               NewAlert(id, SeverityCritical,
                        who \o <<" Memory usage is CRITICAL: ">> \o figures,
                        "k8s_node_metrics", value, labels)
          [] OTHER ->
               NewAlert(id, SeverityMedium, who \o <<" metric alert">>,
                        "k8s_node_metrics", value, labels)

\* evaluateNodeConditions, one iteration of the loop over
\* node.Status.Conditions: the switch on condition.Type.
NodeConditionAlerts(condition) ==
    CASE condition.type = "Ready" ->
           IF condition.status # "True" THEN <<AlertTypeNodeNotReady>> ELSE <<>>
      [] condition.type = "MemoryPressure" ->
           IF condition.status = "True" THEN <<AlertTypeNodeMemoryPressure>> ELSE <<>>
      [] condition.type = "DiskPressure" ->
           IF condition.status = "True" THEN <<AlertTypeNodeDiskPressure>> ELSE <<>>
      [] condition.type = "PIDPressure" ->
           IF condition.status = "True" THEN <<AlertTypeNodePIDPressure>> ELSE <<>>
      [] OTHER -> <<>>

RECURSIVE NodeConditionLoop(_, _)
NodeConditionLoop(conditions, i) ==
    IF i > Len(conditions) THEN <<>>
    ELSE NodeConditionAlerts(conditions[i]) \o NodeConditionLoop(conditions, i + 1)

\* evaluateNodeConditions: one alert of value 1.0 per condition found; base
\* is the number of alerts built before.
evaluateNodeConditions(node, base) ==
    [i \in 1..Len(NodeConditionLoop(node.conditions, 1)) |->
        BuildNodeAlert(node, NodeConditionLoop(node.conditions, 1)[i], 1, base + i)]

\* checkPodMetrics, one iteration of the loop over the pods' metrics.
PodMetricConditions(metrics, thresholds) ==
    IF metrics.CPURequestMillis = 0 /\ metrics.MemoryRequestBytes = 0 THEN <<>>
    ELSE (IF metrics.CPURequestMillis > 0
             /\ metrics.CPUUsagePercent > thresholds.PodCPUPercent
          THEN <<[metrics |-> metrics, alertType |-> AlertTypePodCPUHigh,
                  value |-> metrics.CPUUsagePercent,
                  threshold |-> thresholds.PodCPUPercent]>>
          ELSE <<>>)
         \o (IF metrics.MemoryRequestBytes > 0
                /\ metrics.MemoryUsagePercent > thresholds.PodMemoryPercent
             THEN <<[metrics |-> metrics, alertType |-> AlertTypePodMemoryHigh,
                     value |-> metrics.MemoryUsagePercent,
                     threshold |-> thresholds.PodMemoryPercent]>>
             ELSE <<>>)

RECURSIVE PodMetricLoop(_, _, _)
PodMetricLoop(podMetrics, thresholds, i) ==
    IF i > Len(podMetrics) THEN <<>>
    ELSE PodMetricConditions(podMetrics[i], thresholds)
             \o PodMetricLoop(podMetrics, thresholds, i + 1)

\* checkPodMetrics: the alerts it gives to ProcessAlert, in their order.
checkPodMetrics(podMetrics, thresholds, base) ==
    [i \in 1..Len(PodMetricLoop(podMetrics, thresholds, 1)) |->
        LET c == PodMetricLoop(podMetrics, thresholds, 1)[i]
        IN  BuildPodMetricAlert(c.metrics.Namespace, c.metrics.PodName, c.alertType,
                                c.value, c.threshold, base + i)]

\* checkNodeMetrics, one iteration of the loop over the nodes' metrics.
NodeMetricConditions(metrics, thresholds) ==
    (IF metrics.CPUUsagePercent > thresholds.NodeCPUPercent
     THEN <<[metrics |-> metrics, alertType |-> AlertTypeNodeCPUHigh,
             value |-> metrics.CPUUsagePercent,
             threshold |-> thresholds.NodeCPUPercent]>>
     ELSE <<>>)
    \o (IF metrics.MemoryUsagePercent > thresholds.NodeMemoryPercent
        THEN <<[metrics |-> metrics, alertType |-> AlertTypeNodeMemoryHigh,
                value |-> metrics.MemoryUsagePercent,
                threshold |-> thresholds.NodeMemoryPercent]>>
        ELSE <<>>)

RECURSIVE NodeMetricLoop(_, _, _)
NodeMetricLoop(nodeMetrics, thresholds, i) ==
    IF i > Len(nodeMetrics) THEN <<>>
    ELSE NodeMetricConditions(nodeMetrics[i], thresholds)
             \o NodeMetricLoop(nodeMetrics, thresholds, i + 1)

\* checkNodeMetrics: the alerts it gives to ProcessAlert, in their order.
checkNodeMetrics(nodeMetrics, thresholds, base) ==
    [i \in 1..Len(NodeMetricLoop(nodeMetrics, thresholds, 1)) |->
        LET c == NodeMetricLoop(nodeMetrics, thresholds, 1)[i]
        IN  BuildNodeMetricAlert(c.metrics.NodeName, c.alertType, c.value, c.threshold,
                                 base + i)]

\* Container statuses of the pods evaluated.
EvalContainers ==
    {<<>>,
     <<ContainerStatus("app", 0, "none", "none", "")>>,
     <<ContainerStatus("app", 4, "OOMKilled", "none", "")>>,
     <<ContainerStatus("init", 0, "none", "ErrImagePull", "pull access denied"),
       ContainerStatus("main", 6, "Error", "CrashLoopBackOff",
                       "back-off restarting failed container")>>,
     <<ContainerStatus("a", 2, "OOMKilled", "CrashLoopBackOff", "back-off"),
       ContainerStatus("b", 2, "none", "ImagePullBackOff", "image not found")>>,
     <<ContainerStatus("a", 2, "OOMKilled", "none", ""),
       ContainerStatus("b", 3, "OOMKilled", "none", "")>>,
     <<ContainerStatus("a", 3, "Error", "CrashLoopBackOff", "back-off a"),
       ContainerStatus("b", 3, "Error", "CrashLoopBackOff", "back-off b")>>}

\* The pods evaluated, created at time 0.
EvalPods ==
    {[namespace |-> "prod", name |-> "web-7", phase |-> phase, reason |-> "",
      message |-> message, created |-> 0, containers |-> containers] :
        phase \in {"Running", "Pending", "Failed", "Unknown"},
        message \in {"", "0/3 nodes are available"},
        containers \in EvalContainers}

NodeCondition(type, status) == [type |-> type, status |-> status, reason |-> ""]

\* The nodes evaluated.
EvalNodes ==
    {[name |-> "node-a",
      conditions |-> <<NodeCondition("Ready", ready),
                       NodeCondition("MemoryPressure", memory),
                       NodeCondition("DiskPressure", disk),
                       NodeCondition("PIDPressure", pid)>>] :
        ready \in {"True", "False", "Unknown"}, memory \in {"True", "False"},
        disk \in {"True", "False"}, pid \in {"True", "False"}}

\* The pod metrics checked: one pod, at and above the thresholds.
EvalPodMetrics ==
    {<<[Namespace |-> "prod", PodName |-> "web-7", CPURequestMillis |-> cpuRequest,
        MemoryRequestBytes |-> memoryRequest, CPUUsagePercent |-> cpu,
        MemoryUsagePercent |-> memory]>> :
        cpuRequest \in {0, 500}, memoryRequest \in {0, 1024},
        cpu \in {MetricThresholds.PodCPUPercent, MetricThresholds.PodCPUPercent + 1},
        memory \in {MetricThresholds.PodMemoryPercent,
                    MetricThresholds.PodMemoryPercent + 1}}

\* The node metrics checked: one node, at and above the thresholds.
EvalNodeMetrics ==
    {<<[NodeName |-> "node-a", CPUUsagePercent |-> cpu, MemoryUsagePercent |-> memory]>> :
        cpu \in {MetricThresholds.NodeCPUPercent, MetricThresholds.NodeCPUPercent + 1},
        memory \in {MetricThresholds.NodeMemoryPercent,
                    MetricThresholds.NodeMemoryPercent + 1}}

\* The inputs of the rules.
EvalInputs ==
    {[kind |-> "pod", obj |-> pod] : pod \in EvalPods}
    \cup {[kind |-> "node", obj |-> node] : node \in EvalNodes}
    \cup {[kind |-> "podMetrics", obj |-> metrics] : metrics \in EvalPodMetrics}
    \cup {[kind |-> "nodeMetrics", obj |-> metrics] : metrics \in EvalNodeMetrics}

\* Number of alerts built by the evaluations made so far.
RECURSIVE AlertsBuilt(_, _)
AlertsBuilt(out, i) ==
    IF i > Len(out) THEN 0 ELSE Len(out[i].alerts) + AlertsBuilt(out, i + 1)

\* An evaluation returns alerts.
Evaluated(alerts) ==
    /\ Len(evalOut) < MaxEvals
    /\ evalOut' = Append(evalOut, [at |-> evalNow, alerts |-> alerts])
    /\ UNCHANGED <<poolVars, asmVars, busVars, appVars, hubVars, watchVars, mailVars,
                   evalIn, evalNow>>

\* processEvent of the pod watcher: pw.evaluatePodConditions(pod).
EvaluatePod ==
    /\ evalIn.kind = "pod"
    /\ Evaluated(evaluatePodConditions(WithAge(evalIn.obj, evalNow), PodWatcherConfig,
                                       AlertsBuilt(evalOut, 1)))

\* processEvent of the node watcher: nw.evaluateNodeConditions(node).
EvaluateNode ==
    /\ evalIn.kind = "node"
    /\ Evaluated(evaluateNodeConditions(evalIn.obj, AlertsBuilt(evalOut, 1)))

\* checkPodMetrics on the metrics GetAllPodsMetrics returned.
CheckPodMetrics ==
    /\ evalIn.kind = "podMetrics"
    /\ Evaluated(checkPodMetrics(evalIn.obj, MetricThresholds, AlertsBuilt(evalOut, 1)))

\* checkNodeMetrics on the metrics GetAllNodesMetrics returned.
CheckNodeMetrics ==
    /\ evalIn.kind = "nodeMetrics"
    /\ Evaluated(checkNodeMetrics(evalIn.obj, MetricThresholds, AlertsBuilt(evalOut, 1)))

\* Time passes.
ClockAdvance ==
    /\ evalNow < MaxClock
    /\ evalNow' = evalNow + ClockStep
    /\ UNCHANGED <<poolVars, asmVars, busVars, appVars, hubVars, watchVars, mailVars,
                   evalIn, evalOut>>

EvalInit ==
    /\ PoolInitWith(1, 1, 0)
    /\ AsmUnused
    /\ BusNew
    /\ AppUnused
    /\ HubNew
    /\ WatchNew
    /\ MailUnused
    /\ evalIn \in EvalInputs
    /\ evalNow = 0
    /\ evalOut = <<>>

EvalNext ==
    \/ EvaluatePod
    \/ EvaluateNode
    \/ CheckPodMetrics
    \/ CheckNodeMetrics
    \/ ClockAdvance

\* The rules applied to one input, up to MaxEvals times, as time passes.
SpecEval == EvalInit /\ [][EvalNext]_vars


\* ---------------------------------------------------------------------------
\* notifier.EmailDispatcher

\* The error OnAlert returns when both attempts failed.
ErrEmailFailed == "email dispatch failed after retries"

\* The configurations the dispatcher is built with.
MailConfigs == [SMTPHost : {"", "smtp.example.com"}, Username : {"", "user@example.com"}]

\* OnAlert: ed.config.SMTPHost == "" || ed.config.Username == "".
ConfigIncomplete == mailCfg.SMTPHost = "" \/ mailCfg.Username = ""

\* OnAlert is called: with an incomplete configuration it returns nil at
\* once, otherwise it formats the message and enters the loop with attempt 0.
OnAlertEnter(c) ==
    /\ mail[c].pc = "idle"
    /\ \A d \in MailCalls : d < c => mail[d].pc # "idle"
    /\ mail' = [mail EXCEPT ![c] =
                    IF ConfigIncomplete
                    THEN [pc |-> "returned", sends |-> <<>>, result |-> ErrNil]
                    ELSE [pc |-> "send", sends |-> <<>>, result |-> "none"]]
    /\ UNCHANGED <<poolVars, asmVars, busVars, appVars, hubVars, watchVars, evalVars, mailCfg>>

\* An OnAlert that returns after its first SendMail, whatever its outcome.
AfterFailedSendGiveUp(sends) ==
    [pc |-> "returned", sends |-> sends, result |-> ErrEmailFailed]
\* OnAlert: after a failed SendMail, time.Sleep(1 * time.Second).
AfterFailedSend(sends) == [pc |-> "sleep", sends |-> sends, result |-> "none"]

\* OnAlert, in the loop: smtp.SendMail; nil is returned when it succeeds.
SendMail(c, ok) ==
    /\ mail[c].pc = "send"
    /\ mail' = [mail EXCEPT ![c] =
                    IF ok
                    THEN [pc |-> "returned", sends |-> Append(mail[c].sends, "ok"),
                          result |-> ErrNil]
                    ELSE AfterFailedSend(Append(mail[c].sends, "failed"))]
    /\ UNCHANGED <<poolVars, asmVars, busVars, appVars, hubVars, watchVars, evalVars, mailCfg>>

\* OnAlert, in the loop: the sleep ends and attempt++; for attempt < 2 the
\* loop goes on, otherwise the error is returned.
SleepDone(c) ==
    /\ mail[c].pc = "sleep"
    /\ mail' = [mail EXCEPT ![c] =
                    IF Len(mail[c].sends) < 2
                    THEN [pc |-> "send", sends |-> mail[c].sends, result |-> "none"]
                    ELSE [pc |-> "returned", sends |-> mail[c].sends,
                          result |-> ErrEmailFailed]]
    /\ UNCHANGED <<poolVars, asmVars, busVars, appVars, hubVars, watchVars, evalVars, mailCfg>>

MailInit ==
    /\ PoolInitWith(1, 1, 0)
    /\ AsmUnused
    /\ BusNew
    /\ AppUnused
    /\ HubNew
    /\ WatchNew
    /\ EvalUnused
    /\ mailCfg \in MailConfigs
    /\ mail = [c \in MailCalls |-> NoMail]

MailNext ==
    \/ \E c \in MailCalls : OnAlertEnter(c)
    \/ \E c \in MailCalls : \E ok \in BOOLEAN : SendMail(c, ok)
    \/ \E c \in MailCalls : SleepDone(c)

\* The email dispatcher under the OnAlert calls of the bus, which run in
\* goroutines of their own.
SpecMail == MailInit /\ [][MailNext]_vars


\* Position of an event in the order the dispatcher received the events.
TakenAt(id) == CHOOSE n \in DOMAIN taken : taken[n] = id

\* C11: Publish never blocks: it is always able to complete; it appends the
\* event when the channel holds fewer than 200 events and otherwise drops
\* that event and leaves the channel as it is; the channel never holds more
\* than 200 events, whatever the sinks do.
C11_PublishNonBlocking ==
    /\ [](Len(eventChan) <= EventChanCap)
    /\ [](publishes < MaxPublish => ENABLED BusPublish)
    /\ [][publishes' # publishes =>
            IF Len(eventChan) < EventChanCap
            THEN /\ eventChan' = Append(eventChan, built + 1)
                 /\ dropped' = dropped
            ELSE /\ eventChan' = eventChan
                 /\ dropped' = dropped \cup {built + 1}]_vars

\* An event was dropped by the full channel while a sink's OnAlert hangs.
C11_Witness ==
    /\ Len(eventChan) = EventChanCap
    /\ built \in dropped
    /\ running # {}
    /\ \E o \in Sinks : sinkMode[o] = "hang"

\* C12: for each event the dispatcher takes from the channel, OnAlert is
\* invoked on every subscribed sink with that event, and never twice:
\* a sink is notified only of events taken, of none twice, and every event
\* taken leads to its OnAlert invocation on every sink.
C12_EachSinkNotifiedOnce ==
    /\ [](\A i \in DOMAIN observers :
            /\ Range(notified[observers[i]]) \subseteq Range(taken)
            /\ Cardinality(Range(notified[observers[i]])) = Len(notified[observers[i]])
            /\ \A id \in Range(taken) :
                  (<<i, id>> \in pending) # (id \in Range(notified[observers[i]])))
    /\ \A i \in DOMAIN BusObservers : \A id \in 1..MaxBusDispatch :
          (id \in Range(taken)) ~> (id \in Range(notified[BusObservers[i]]))

\* Two events were taken and OnAlert was invoked with both on both sinks.
C12_Witness ==
    /\ Len(taken) = 2
    /\ \A i \in DOMAIN observers : Range(notified[observers[i]]) = Range(taken)

\* C13: sink isolation.  Whatever the OnAlert calls in progress or failed,
\* the dispatcher can receive the next event and the publisher can publish;
\* the return of an OnAlert, with an error or not, changes nothing of the
\* channel, the dispatcher or the other notifications; and when the first
\* sink fails or hangs, every event taken still leads to its OnAlert
\* invocation on every sink, the failing one included.
C13_SinkIsolation ==
    /\ []((eventChan # <<>> /\ Len(taken) < MaxBusDispatch /\ dispatcher = "running")
            => ENABLED DispatcherReceiveUpTo(MaxBusDispatch))
    /\ [][(running' # running /\ notified' = notified) =>
            UNCHANGED <<eventChan, dropped, taken, pending, dispatcher, busPanics,
                        lastReturn, publishes>>]_vars
    /\ \A i \in DOMAIN BusObservers : \A id \in 1..MaxBusDispatch :
          (id \in Range(taken) /\ sinkMode[BusObservers[1]] # "ok")
              ~> (id \in Range(notified[BusObservers[i]]))

\* The first sink failed on the first event; the second sink got both
\* events and the first sink was called with the second event too.
C13_Witness ==
    /\ sinkMode[BusObservers[1]] = "fail"
    /\ Len(taken) = 2
    /\ <<1, taken[1]>> \in errored
    /\ notified[BusObservers[2]] = taken
    /\ taken[2] \in Range(notified[BusObservers[1]])

\* C14: each sink sees the events in publication order: the OnAlert calls
\* on a sink start in the order in which the dispatcher took the events.
C14_SinkSeesPublicationOrder ==
    \A i \in DOMAIN observers :
        \A m, n \in DOMAIN notified[observers[i]] :
            m < n => TakenAt(notified[observers[i]][m]) < TakenAt(notified[observers[i]][n])

\* C15: when Stop returns, the dispatcher has exited and no notification
\* the bus started is still to run or running.
C15_StopDrainsNotifications ==
    [][\A b \in BusStoppers :
          (busStopper[b] = "waiting" /\ busStopper'[b] = "returned") =>
              /\ dispatcher' # "running"
              /\ pending' = {}
              /\ running' = {}]_vars

\* C16: Stop called twice is safe: no call panics.
C16_StopTwiceSafe ==
    /\ busPanics = {}
    /\ \A b \in BusStoppers : busStopper[b] # "panicked"

\* The sinks init() subscribes, in their order.
FinalObservers ==
    IF emailEnabled THEN <<"wsHub", "emailDispatcher">> ELSE <<"wsHub">>

C18_WriteFailureIsolated ==
    hubPc = "unregistering" => ENABLED RunSteps

\* C19: Hub.Broadcast and Hub.OnAlert never block, whatever Run is doing
\* and also before Run was started and after it returned: a call enqueues its
\* message when the broadcast channel holds fewer than 500 and otherwise
\* drops it, leaving the channel as it is; the channel never holds more
\* than 500.
C19_BroadcastNonBlocking ==
    /\ [](hubSent < MaxBroadcasts =>
            ENABLED Broadcast /\ \A marshalOk \in BOOLEAN : ENABLED HubOnAlert(marshalOk))
    /\ [](Len(broadcast) <= BroadcastCap)
    /\ [][hubSent' # hubSent =>
            /\ hubPc' = hubPc /\ hubTodo' = hubTodo /\ clients' = clients
            /\ IF Len(broadcast) < BroadcastCap
               THEN /\ hubDropped' = hubDropped
                    /\ broadcast' \in {broadcast, Append(broadcast, NextMessage)}
               ELSE /\ broadcast' = broadcast
                    /\ hubDropped' \in {hubDropped, hubDropped \cup {NextMessage}}]_vars

C19_Witness ==
    /\ hubPc = "exited"
    /\ hubTaken = 1
    /\ Len(broadcast) = BroadcastCap
    /\ hubDropped = {BroadcastCap + MaxBroadcasts}

\* C20: when the hub's context is cancelled the hub loop exits and every
\* client still registered has its connection closed.
C20_ShutdownClosesConnections ==
    hubPc = "exited" => \A c \in clients : conn[c] = "closed"

\* C21: when a server-initiated control ping to a client fails, that client
\* is unregistered: the step in which the ping goroutine ends on a failed
\* ping hands the client to the hub's unregister channel, or the client is
\* out of the client set.
C21_PingFailureUnregisters ==
    [][\A c \in HubClients :
          (heartbeat[c] = "pinging" /\ heartbeat'[c] = "exited") =>
              (c \in unregWaiting' \/ c \notin clients')]_vars

\* C22: a read error in a client's receive goroutine unregisters the client:
\* unless the hub's context is cancelled, the client is eventually out of the
\* client set with its connection closed.
C22_ReadErrorUnregisters ==
    \A c \in HubClients :
        (reader[c] = "unregistering" /\ ~hubCtxDone)
            ~> ((c \notin clients /\ conn[c] = "closed") \/ hubCtxDone)

\* The outbound writes in progress on the connection of client c.
WritesInProgress(c) ==
    (IF hubPc = "locked" /\ Head(hubTodo) = c THEN {"hub"} ELSE {})
        \cup (IF reader[c] = "ponging" THEN {"reader"} ELSE {})
        \cup (IF heartbeat[c] = "pinging" THEN {"heartbeat"} ELSE {})

\* C23: per-client write exclusion: at most one outbound write (broadcast
\* message, pong reply, control ping) is in progress on a client's
\* connection at any time, and it is the write of the holder of writeMu.
C23_WriteExclusion ==
    \A c \in HubClients :
        /\ Cardinality(WritesInProgress(c)) <= 1
        /\ WritesInProgress(c) \subseteq {writeMu[c]}

\* The ping goroutine is writing to a client the hub loop has a broadcast
\* message to write to.
C23_Witness ==
    \E c \in HubClients :
        /\ heartbeat[c] = "pinging"
        /\ reader[c] = "reading"
        /\ hubPc = "writing"
        /\ hubTodo # <<>>
        /\ Head(hubTodo) = c

\* C24: streaming, the watcher never blocks on its event channel: it can
\* always take the next upstream event; an event arriving while the channel
\* holds 500 (pod) or 300 (node) events is dropped, nothing else is lost,
\* and the watcher stays streaming; the channel never holds more than that.
C24_WatcherNeverBlocks ==
    /\ [](stream = "streaming" /\ wSeen < MaxWatchEvents =>
            \A isPod \in BOOLEAN : ENABLED WatchReceive(isPod))
    /\ [](Len(wChan) <= WatchChanCap)
    /\ [](WatchChanCap = IF wKind = "pod" THEN 500 ELSE 300)
    /\ [][wSeen' # wSeen =>
            /\ stream' = "streaming"
            /\ wSubmitted' = wSubmitted
            /\ IF Len(wChan) < WatchChanCap
               THEN /\ wDropped' = wDropped
                    /\ wChan' \in {wChan, Append(wChan, NextWatchEvent)}
               ELSE /\ wChan' = wChan
                    /\ wDropped' \in {wDropped, wDropped \cup {NextWatchEvent}}]_vars

\* The node watcher dropped an event at 300 events and, the dispatcher
\* having taken one, accepted the next upstream event.
C24_Witness ==
    /\ wKind = "node"
    /\ stream = "streaming"
    /\ wDropped = {NodeEventChanCap + 1}
    /\ Len(wChan) = NodeEventChanCap
    /\ wChan[Len(wChan)] = NodeEventChanCap + 2

\* The events the dispatcher took from the channel, in order.
Consumed == [n \in DOMAIN wSubmitted |-> wSubmitted[n][1]]

\* Each event is consumed and submitted at most once, a consumed event is
\* out of the channel whatever SubmitWithContext returned, and the
\* dispatcher can go on to the next event.
ConsumedAtMostOnce ==
    /\ [](\A m, n \in DOMAIN Consumed : m # n => Consumed[m] # Consumed[n])
    /\ [](Range(Consumed) \cap Range(wChan) = {})
    /\ []((wDisp = "running" /\ wChan # <<>> /\ Len(wSubmitted) < MaxWatchEvents) =>
            \A err \in SubmitOutcomes : ENABLED EventDispatch(err))

\* C25 as stated: every event accepted into the channel is consumed exactly
\* once by the dispatcher and submitted at most once, without retry and
\* without blocking on a failed submission.
C25_ConsumedExactlyOnce ==
    /\ ConsumedAtMostOnce
    /\ \A id \in 1..MaxWatchEvents :
          (id \in Range(wChan)) ~> (id \in Range(Consumed))

\* C25, amended: every event accepted into the channel is consumed at most
\* once, and exactly once unless the watcher is stopped or its context is
\* cancelled before the dispatcher takes the event; it is submitted at most
\* once, without retry and without blocking on a failed submission.
C25_ConsumedOnceUnlessStopped ==
    /\ ConsumedAtMostOnce
    /\ \A id \in 1..MaxWatchEvents :
          (id \in Range(wChan))
              ~> (id \in Range(Consumed) \/ wStopClosed \/ watchCtxDone)

\* A submission failed and the dispatcher went on to submit the next event.
C25_Witness ==
    /\ Len(wSubmitted) = 2
    /\ wSubmitted[1][2] = ErrQueueFull
    /\ wSubmitted[2][2] = ErrNil
    /\ wChan = <<>>
    /\ ~wStopClosed
    /\ ~watchCtxDone

\* C26: reconnect.  A streaming watcher leaves that state only for
\* Disconnected; Disconnected, it opens a new watch unless it is stopped or
\* cancelled, and then only it exits; a successful dial makes it streaming
\* and a failed one makes it sleep 5 s and return to Disconnected.
C26_WatcherReconnects ==
    /\ [][(stream = "streaming" /\ stream' # stream) => stream' = "disconnected"]_vars
    /\ [][(stream = "sleeping" /\ stream' # stream) => stream' = "disconnected"]_vars
    /\ [][(stream = "disconnected" /\ stream' # stream) =>
            IF wStopClosed \/ watchCtxDone THEN stream' = "exited"
            ELSE stream' \in {"streaming", "sleeping"}]_vars
    /\ []((stream = "disconnected" /\ ~wStopClosed /\ ~watchCtxDone) =>
            /\ ENABLED WatchDial(TRUE)
            /\ ENABLED WatchDial(FALSE))
    /\ [](stream = "sleeping" => ENABLED WatchSleepDone)

\* After streaming, the watch was closed and the next dial failed.
C26_Witness ==
    /\ wSeen = 1
    /\ stream = "sleeping"
    /\ ~wStopClosed
    /\ ~watchCtxDone

\* C28: on Start the metrics watcher runs one check before its ticker has
\* fired, and every check attempts two submissions, the pod metrics check
\* and then the node metrics check, whatever the first one returned.
C28_ImmediateCheckTwoSubmissions ==
    /\ [][mTicks' # mTicks => Len(mAttempts) >= 2]_vars
    /\ []((mPc # "none" /\ mTicks = 0) =>
            (mPc = "podSubmit" \/ Len(mAttempts) >= 1))
    /\ [](\A n \in DOMAIN mAttempts :
             mAttempts[n][1] = IF n % 2 = 1 THEN "pod" ELSE "node")
    /\ [](mPc \in {"select", "exited"} => Len(mAttempts) = 2 * (mTicks + 1))
    /\ [](mPc = "podSubmit" => Len(mAttempts) = 2 * mTicks)
    /\ [](mPc = "nodeSubmit" =>
            /\ Len(mAttempts) = 2 * mTicks + 1
            /\ \A err \in SubmitOutcomes : ENABLED MetricsSubmitNode(err))

\* The immediate check was made before any tick, its first submission was
\* refused and its second one accepted.
C28_Witness ==
    /\ mTicks = 0
    /\ mPc = "select"
    /\ mAttempts = <<<<"pod", ErrQueueFull>>, <<"node", ErrNil>>>>

\* appCancel() has been called.
RootCancelled == poolCtxDone /\ busCtxDone /\ hubCtxDone /\ watchCtxDone

\* The long-lived goroutines other than Run have returned.
WorkScopesTerminated ==
    /\ LiveWorkers = {}
    /\ dispatcher = "exited"
    /\ stream = "exited"
    /\ wDisp = "exited"
    /\ mPc = "exited"

\* After appCancel() the workers, the dispatchers and the loops of the
\* watchers return and the Stop calls of shutdown() all return.
ShutdownStopsReturn == RootCancelled ~> (WorkScopesTerminated /\ mainPc = "stopped")

\* C27: once the root context is cancelled every long-lived scope (the
\* workers, the bus dispatcher, the watcher's stream and dispatcher
\* goroutines, the metrics loop and the hub loop) terminates and the Stop
\* calls of the shutdown sequence all return.
C27_RootCancelTerminatesAll ==
    RootCancelled ~> (WorkScopesTerminated /\ hubPc = "exited" /\ mainPc = "stopped")

\* An alert but for its ID (the timestamps are not modelled).
SansID(alert) == [f \in DOMAIN alert \ {"ID"} |-> alert[f]]

\* Two results hold the same alerts in the same order, IDs aside.
SameAlerts(a, b) ==
    /\ Len(a) = Len(b)
    /\ \A k \in DOMAIN a : SansID(a[k]) = SansID(b[k])

\* At the time at, the pod evaluated is older than the pending timeout.
PastPendingTimeout(at) ==
    Since(evalIn.obj.created, at) > PodWatcherConfig.pendingTimeout

\* C29 as stated: two evaluations of the same pod or node against the same
\* thresholds return the same alerts (types, severities, sources, labels,
\* values and order; IDs aside), whatever else differs between them.
C29_SameInputSameAlerts ==
    evalIn.kind \in {"pod", "node"} =>
        \A i, j \in DOMAIN evalOut : SameAlerts(evalOut[i].alerts, evalOut[j].alerts)

\* C29, amended: two evaluations of the same node return the same alerts,
\* and so do two evaluations of the same pod unless the pod is Pending and
\* its age passed the pending timeout between them; the pod_pending rule
\* reads the clock.
C29_SameAlertsButForPendingAge ==
    evalIn.kind \in {"pod", "node"} =>
        \A i, j \in DOMAIN evalOut :
            (\/ evalIn.kind = "node"
             \/ evalIn.obj.phase # "Pending"
             \/ PastPendingTimeout(evalOut[i].at) = PastPendingTimeout(evalOut[j].at))
            => SameAlerts(evalOut[i].alerts, evalOut[j].alerts)

\* A Pending pod was evaluated twice at different times past its pending
\* timeout, and both evaluations returned several alerts, pod_pending last.
C29_Witness ==
    /\ evalIn.kind = "pod"
    /\ evalIn.obj.phase = "Pending"
    /\ Len(evalOut) = 2
    /\ evalOut[1].at # evalOut[2].at
    /\ PastPendingTimeout(evalOut[1].at)
    /\ Len(evalOut[1].alerts) >= 3
    /\ evalOut[2].alerts[Len(evalOut[2].alerts)].Labels.alert_type = AlertTypePodPending

\* The severity the rules give to the alerts of a type.
SeverityByType ==
    [t \in {AlertTypePodFailed, AlertTypePodUnknown, AlertTypePodOOMKilled,
            AlertTypeNodeNotReady, AlertTypeNodeCPUHigh, AlertTypeNodeMemoryHigh}
        |-> SeverityCritical]
    @@ [t \in {AlertTypePodCrashLoop, AlertTypePodImagePullError,
               AlertTypePodRestartThreshold, AlertTypeNodeMemoryPressure,
               AlertTypeNodeDiskPressure, AlertTypePodCPUHigh, AlertTypePodMemoryHigh}
        |-> SeverityHigh]
    @@ [t \in {AlertTypePodPending, AlertTypeNodePIDPressure} |-> SeverityMedium]

\* The source the rules give to the alerts of a type.
SourceByType ==
    [t \in PodAlertTypes |-> "k8s_pod"]
    @@ [t \in {AlertTypeNodeNotReady, AlertTypeNodeMemoryPressure,
               AlertTypeNodeDiskPressure, AlertTypeNodePIDPressure} |-> "k8s_node"]
    @@ [t \in {AlertTypePodCPUHigh, AlertTypePodMemoryHigh} |-> "k8s_pod_metrics"]
    @@ [t \in {AlertTypeNodeCPUHigh, AlertTypeNodeMemoryHigh} |-> "k8s_node_metrics"]

\* The alerts the evaluations returned.
AlertsReturned == UNION {Range(evalOut[i].alerts) : i \in DOMAIN evalOut}

TypesReturned(i) ==
    [k \in DOMAIN evalOut[i].alerts |-> evalOut[i].alerts[k].Labels.alert_type]

\* The rule table of the pod evaluator, in its order.
PodRuleTable ==
    <<AlertTypePodFailed, AlertTypePodUnknown, AlertTypePodOOMKilled, AlertTypePodCrashLoop,
      AlertTypePodImagePullError, AlertTypePodRestartThreshold, AlertTypePodPending>>

\* Position of an alert type in the rule table.
RuleRank(t) == CHOOSE n \in DOMAIN PodRuleTable : PodRuleTable[n] = t

\* C31: the alerts of one evaluation of a pod follow the order of the rule
\* table, one alert per matched condition: pod_failed, pod_unknown,
\* pod_oom_killed, pod_crash_loop, pod_image_pull, pod_restart_threshold,
\* pod_pending, whatever the number of containers of the pod.
C31_RuleTableOrder ==
    evalIn.kind = "pod" =>
        \A i \in DOMAIN evalOut :
            \A k, l \in DOMAIN evalOut[i].alerts :
                k < l => RuleRank(TypesReturned(i)[k]) < RuleRank(TypesReturned(i)[l])

\* Sum of the restart counts of the first n containers of a pod.
RECURSIVE RestartSum(_, _)
RestartSum(pod, n) ==
    IF n = 0 THEN 0 ELSE pod.containers[n].restartCount + RestartSum(pod, n - 1)

\* The container of a pod with the highest restart count, the first of them
\* in iteration order.
FirstHighestRestarts(pod) ==
    CHOOSE i \in DOMAIN pod.containers :
        /\ \A j \in DOMAIN pod.containers :
              pod.containers[j].restartCount <= pod.containers[i].restartCount
        /\ \A j \in DOMAIN pod.containers :
              j < i => pod.containers[j].restartCount < pod.containers[i].restartCount

\* The positions of the alerts of a type in the evaluation at position i.
AlertsOfType(i, t) == {k \in DOMAIN evalOut[i].alerts : TypesReturned(i)[k] = t}

\* C32: an evaluation of a pod returns a pod_restart_threshold alert exactly
\* when the sum of the restart counts of its containers is greater than the
\* restart threshold; there is one such alert, its value is that sum and its
\* container label names the first container with the highest restart count.
C32_RestartThreshold ==
    evalIn.kind = "pod" =>
        \A i \in DOMAIN evalOut :
            LET total == RestartSum(evalIn.obj, Len(evalIn.obj.containers))
                found == AlertsOfType(i, AlertTypePodRestartThreshold)
            IN  /\ (found # {}) <=> (total > PodWatcherConfig.restartThreshold)
                /\ Cardinality(found) <= 1
                /\ \A k \in found :
                      /\ evalOut[i].alerts[k].Value = total
                      /\ evalOut[i].alerts[k].Severity = SeverityHigh
                      /\ evalOut[i].alerts[k].Labels.container =
                            evalIn.obj.containers[FirstHighestRestarts(evalIn.obj)].name

\* A pod whose two containers restarted three times each was evaluated: the
\* alert has value 6 and names the first container.
C32_Witness ==
    /\ evalIn.kind = "pod"
    /\ Len(evalIn.obj.containers) = 2
    /\ evalIn.obj.containers[1].restartCount = evalIn.obj.containers[2].restartCount
    /\ Len(evalOut) >= 1
    /\ \E k \in AlertsOfType(1, AlertTypePodRestartThreshold) :
          /\ evalOut[1].alerts[k].Value = 6
          /\ evalOut[1].alerts[k].Labels.container = evalIn.obj.containers[1].name

\* C33: an evaluation of a Pending pod returns a pod_pending alert (medium,
\* value 1) exactly when the pod has been pending for at least the grace
\* period, the pending timeout of 300 s; a pod in another phase gets none.
C33_PendingAtGracePeriod ==
    evalIn.kind = "pod" =>
        \A i \in DOMAIN evalOut :
            LET found == AlertsOfType(i, AlertTypePodPending)
            IN  /\ (found # {}) <=>
                      /\ evalIn.obj.phase = "Pending"
                      /\ Since(evalIn.obj.created, evalOut[i].at) >=
                            PodWatcherConfig.pendingTimeout
                /\ Cardinality(found) <= 1
                /\ \A k \in found :
                      /\ evalOut[i].alerts[k].Severity = SeverityMedium
                      /\ evalOut[i].alerts[k].Value = 1

\* ---------------------------------------------------------------------------
\* C34: an OnAlert call of the email dispatcher with a complete configuration
\* makes at most two SendMail calls; it returns nil as soon as one succeeds
\* (a success is always the last call made), makes exactly one retry after a
\* first failure, and returns the error exactly when both calls failed. With
\* an empty SMTP host or username it makes no SendMail call and returns nil.
MailReturned(c) == mail[c].pc = "returned"

C34_EmailAtMostTwoAttempts ==
    \A c \in MailCalls :
        LET sends == mail[c].sends
            n == Len(sends)
        IN  /\ n <= 2
            /\ \A i \in 1..n : sends[i] = "ok" => i = n /\ MailReturned(c) /\ mail[c].result = ErrNil
            /\ MailReturned(c) /\ n >= 1 /\ sends[1] = "failed" => n = 2
            /\ MailReturned(c) =>
                    /\ mail[c].result \in {ErrNil, ErrEmailFailed}
                    /\ mail[c].result = ErrEmailFailed <=> sends = <<"failed", "failed">>
            /\ MailReturned(c) /\ ~ConfigIncomplete => n >= 1
            /\ ConfigIncomplete => n = 0 /\ (MailReturned(c) => mail[c].result = ErrNil)

\* One call succeeded on its retry, one failed twice and one succeeded at once.
C34_Witness ==
    /\ ~ConfigIncomplete
    /\ \E c \in MailCalls : MailReturned(c) /\ mail[c].sends = <<"failed", "ok">>
    /\ \E c \in MailCalls : MailReturned(c) /\ mail[c].sends = <<"failed", "failed">>
                            /\ mail[c].result = ErrEmailFailed
    /\ \E c \in MailCalls : MailReturned(c) /\ mail[c].sends = <<"ok">>

\* ---------------------------------------------------------------------------
\* C35: streaming, a received watch item whose object is not of the expected
\* kind (it is neither sent to the event channel nor dropped at a full one)
\* returns the watcher to disconnected.
NonKindItemReceived ==
    /\ stream = "streaming"
    /\ wSeen' = wSeen + 1
    /\ wChan' = wChan
    /\ wDropped' = wDropped

C35_DecodeFailureDisconnects ==
    [][NonKindItemReceived => stream' = "disconnected"]_vars

\* ---------------------------------------------------------------------------
\* C36: in every interleaving of Submit or SubmitWithContext with Stop, a
\* call either enqueues its task or returns an error; none fails with a send
\* on the closed task queue.
SubmitOutcomeOrError(t) ==
    call[t].pc = "done" =>
        \/ call[t].result = ErrNil /\ t \in Accepted
        \/ call[t].result \in {ErrQueueFull, ErrStopped, ErrCanceled}

C36_NoSendOnClosedQueue ==
    /\ PanicSendClosed \notin panics
    /\ \A t \in DOMAIN call : SubmitOutcomeOrError(t)

\* ---------------------------------------------------------------------------
\* C37: every call to Register or Unregister eventually returns: a client
\* waiting to send on h.register or on h.unregister is eventually no longer
\* waiting, also when the call is made after Run has exited on the
\* cancellation of its context.
C37_RegisterUnregisterReturn ==
    \A c \in HubClients :
        /\ (c \in regWaiting) ~> (c \notin regWaiting)
        /\ (c \in unregWaiting) ~> (c \notin unregWaiting)

\* ---------------------------------------------------------------------------
\* C38: a task accepted by Submit on a started pool is eventually executed
\* unless Stop is called afterwards: while no Stop has been called, an
\* accepted task still in the queue has a live worker to take it; and Submit
\* accepts no task once every worker has exited on the cancellation of the
\* context given to Start.
NoStopCalled == \A s \in Stoppers : stopper[s].pc = "idle" /\ swt[s].pc = "idle"

WorkersGoneOnCancel ==
    started /\ poolCtxDone /\ stopCloses = 0 /\ Workers # {} /\ LiveWorkers = {}

C38_AcceptedTaskIsExecuted ==
    /\ [](\A t \in Accepted :
            (started /\ NoStopCalled /\ t \notin Begun) => LiveWorkers # {})
    /\ [][\A t \in DOMAIN call :
            (call[t].result # ErrNil /\ call'[t].result = ErrNil)
                => ~WorkersGoneOnCancel]_vars

\* ---------------------------------------------------------------------------
\* The n-th smallest element of a set of positions.
NthOf(I, n) == CHOOSE i \in I : Cardinality({j \in I : j < i}) = n - 1

\* The alerts of type t of evaluation i name, one by one and in order, the
\* containers of the pod at the positions I: the n-th alert has the name of
\* the n-th of these containers as its container label and its restart count
\* as its value.
AlertsNameContainers(i, t, I) ==
    /\ Cardinality(AlertsOfType(i, t)) = Cardinality(I)
    /\ \A n \in 1..Cardinality(I) :
          LET alert == evalOut[i].alerts[NthOf(AlertsOfType(i, t), n)]
              cs == evalIn.obj.containers[NthOf(I, n)]
          IN  /\ alert.Labels.container = cs.name
              /\ alert.Value = cs.restartCount

\* C39: every pod_oom_killed alert and every pod_crash_loop alert names the
\* container that triggered it: the alert emitted for container c carries
\* labels.container = c and value = the restart count of c, also for a pod
\* with several such containers.
C39_AlertNamesItsContainer ==
    evalIn.kind = "pod" =>
        \A i \in DOMAIN evalOut :
            LET cs == evalIn.obj.containers
            IN  /\ AlertsNameContainers(i, AlertTypePodOOMKilled,
                                        {c \in DOMAIN cs : IsOOMKilled(cs[c])})
                /\ AlertsNameContainers(i, AlertTypePodCrashLoop,
                                        {c \in DOMAIN cs : IsCrashLoop(cs[c])})

\* ---------------------------------------------------------------------------
\* The hub with its clients, from its construction on, under the scheduling
\* of HubFairness.
SpecHubOrder == HubFreshInit /\ [][HubNext]_vars /\ HubFairness

\* The messages written to client c are in the order Broadcast accepted them,
\* none of them twice.
InAcceptedOrder(c) ==
    \A i, j \in DOMAIN received[c] : i < j => received[c][i] < received[c][j]

\* The clients the hub writes message hubMsg to are those in the set when
\* Run took the message from the broadcast channel, and a write gives the
\* message to the client at the head of that copy.
WrittenToSnapshotOnly ==
    /\ hubTaken' # hubTaken => Range(hubTodo') = clients
    /\ \A c \in HubClients :
          received'[c] # received[c] =>
              /\ hubPc = "locked" /\ c = Head(hubTodo)
              /\ received'[c] = Append(received[c], hubMsg)

\* Client c is in the copy of the client set Run made for message m and has
\* not been written to yet.
AwaitsMessage(c, m) ==
    /\ hubPc \in {"writing", "locked", "unregistering"}
    /\ hubMsg = m
    /\ c \in Range(hubTodo)

\* C40: a client that stays registered receives the messages accepted by
\* Broadcast in the order accepted, each exactly once: a message Run took
\* while the client was in the set is eventually written to it unless the
\* client leaves the set; and a message is written only to the clients in the
\* set at the moment Run takes it from the broadcast channel.
C40_BroadcastOrdering ==
    /\ [](\A c \in HubClients : InAcceptedOrder(c))
    /\ [][WrittenToSnapshotOnly]_vars
    /\ \A c \in HubClients : \A m \in 1..MaxHubMessages :
          AwaitsMessage(c, m) ~> (m \in Range(received[c]) \/ c \notin clients)

====
